---- MODULE Spec2Model ----
(***************************************************************************)
(* Charging-session lifecycle engine (routes/session.routes.ts) and the    *)
(* ledger write queue (lib/ledgerQueue.ts) of the EV ledger server.        *)
(*                                                                         *)
(* Every request handler is an async function: each `await` of a store     *)
(* call is a point where other handlers, the clock and the queue drain may *)
(* run.  An await of a handler is two steps of this model: the store       *)
(* executes the call the handler has issued (Store), and later the handler *)
(* runs on with the answer, up to and including the issue of its next      *)
(* call.  What a call carries (a timestamp, a status) is computed when the *)
(* call is issued; what it reads or writes is the table as the store finds *)
(* it.  The queue drain and the retry of dead events are split at their    *)
(* awaits in the same way (DrainStore, DrainLedger, RetryStore).           *)
(***************************************************************************)
EXTENDS Integers, Sequences, FiniteSets, TLC

VARIABLES
    now,           \* Date.now(), in milliseconds
    sessions,      \* table charging_sessions; session_id is the row's index
    tokens,        \* table session_resume_tokens; id is the row's index
    ledger_queue,  \* table ledger_queue, in created_at order; id is the index
    sessionCache,  \* the Map sessionCache: cache key -> CachedSession
    nextSecret,    \* number of secrets generateResumeToken has produced
    broadcasts,    \* the messages handed to the broadcaster, in order
    pc,            \* per handler: the await it is suspended at
    loc,           \* per handler: the request and the handler's locals
    res,           \* per handler: the response sent for its last request
    rotated,       \* history: the secrets presented to a resume that succeeded
    issued,        \* history: the secrets returned to a caller
    contractUp,    \* contractRef.get() is non-null
    ledger,        \* the ledger: the records AppendSessionEvent has put
    nextTx,        \* number of ledger transactions created so far
    isProcessing,  \* ledgerQueue.ts: the drain-running flag
    drain,         \* the running drain: its batch, position and suspension
    ncmd,          \* number of requests accepted so far
    nfail,         \* number of store calls that have failed so far
    nticks,        \* number of clock advances so far
    nretry,        \* number of retryDeadEvents calls so far
    retried,       \* the last call of retryDeadEvents: its argument and result
    nlost          \* number of ledger answers lost so far

vars == <<now, sessions, tokens, ledger_queue, sessionCache, nextSecret,
          broadcasts, pc, loc, res, rotated, issued, contractUp, ledger, nextTx,
          isProcessing, drain, ncmd, nfail, nticks, nretry, retried, nlost>>

lifecycleVars == <<sessions, tokens, sessionCache, nextSecret, pc, loc, res,
                   rotated, issued, ncmd>>

queueVars == <<contractUp, ledger, nextTx, isProcessing, drain, nretry, retried, nlost>>

-----------------------------------------------------------------------------
(* Bounds of the model *)

MaxSessions == 1
MaxCommands == 5
MaxRaceCommands == 4
MaxFailures == 1
MaxTicks == 1
MaxQueued == 2
MaxRetries == 1
MaxLost == 1
MaxRows == 11
MaxStarts == 2

(* Program constants *)

CACHE_TTL_MS == 60000
MAX_ATTEMPTS == 5
RETRY_DELAY_MS == 5000
BATCH_SIZE == 10
HOUR_MS == 3600000
DEFAULT_HOURS == 6

Handlers == {1, 2}

Null == -1

\* request inputs: a missing field is the empty string / 0 / NoHours
NoEv == ""
NoId == 0
NoSecret == 0
NoHours == -1
NotANumber == -1

\* a sessionId of a request that is the id of no row and whose text holds a
\* colon: "1:X"
ColonSessionId == -2

-----------------------------------------------------------------------------
(* lib/tokens.ts *)

\* generateResumeToken: 32 random bytes; the n-th call returns a secret that
\* no earlier call returned.
generateResumeToken(n) == n + 1

\* hashToken: SHA-256 of the secret, which is one-to-one on the secrets used
\* here; modelled by a one-to-one scrambling that is not the identity.
hashToken(token) == (token * 31 + 7) % 257

-----------------------------------------------------------------------------
(* routes/session.routes.ts: helpers *)

TERMINAL_STATES == {"stopped", "expired"}
RESUMABLE_STATES == {"paused", "disconnected"}
ACTIVE_STATES == {"active", "charging"}

isTerminal(status) == status \in TERMINAL_STATES
isResumable(status) == status \in RESUMABLE_STATES
isActive(status) == status \in ACTIVE_STATES

nowIso == now

isExpired(expiresAt) == now >= expiresAt

\* the text of a sessionId: the decimal digits of a row's id, and the text
\* of the one request id used here that is the id of no row
sessionIdText(sessionId) ==
    IF sessionId = ColonSessionId THEN "1:X" ELSE ToString(sessionId)

\* `${sessionId}:${evId}`
getCacheKey(sessionId, evId) == sessionIdText(sessionId) \o ":" \o evId

\* sessionCache.get(key) is a fresh entry
CacheHit(sessionId, evId) ==
    LET key == getCacheKey(sessionId, evId) IN
    /\ key \in DOMAIN sessionCache
    /\ now - sessionCache[key].cached_at < CACHE_TTL_MS

CacheSet(cache, sessionId, evId, data) ==
    LET key == getCacheKey(sessionId, evId) IN
    [k \in DOMAIN cache \cup {key} |->
        IF k = key
        THEN [status |-> data.status, expires_at |-> data.expires_at,
              cached_at |-> now]
        ELSE cache[k]]

invalidateSessionCache(cache, sessionId, evId) ==
    [k \in DOMAIN cache \ {getCacheKey(sessionId, evId)} |-> cache[k]]

-----------------------------------------------------------------------------
(* The store (supabase): the queries the handlers issue *)

NoData == [found |-> FALSE, status |-> "", expires_at |-> 0]

\* a select that filters on session_id only
SelectSession_anyEv(sessionId, evId) ==
    IF sessionId \in DOMAIN sessions
    THEN [found |-> TRUE, status |-> sessions[sessionId].status,
          expires_at |-> sessions[sessionId].expires_at]
    ELSE NoData

\* from("charging_sessions").select(..).eq("session_id").eq("ev_id").single()
SelectSession(sessionId, evId) ==
    IF sessionId \in DOMAIN sessions /\ sessions[sessionId].ev_id = evId
    THEN [found |-> TRUE, status |-> sessions[sessionId].status,
          expires_at |-> sessions[sessionId].expires_at]
    ELSE NoData

\* .insert({ ev_id, power_required, .., status: "active", expires_at })
InsertSession(S, evId, powerRequired, expiresAt) ==
    Append(S, [ev_id |-> evId, power_required |-> powerRequired,
               status |-> "active", expires_at |-> expiresAt])

\* .update({ status }).eq("session_id", sessionId).eq("ev_id", evId)
UpdateStatus(S, sessionId, evId, status) ==
    [i \in DOMAIN S |->
        IF i = sessionId /\ S[i].ev_id = evId
        THEN [S[i] EXCEPT !.status = status] ELSE S[i]]

\* .update({ status: "expired" }).eq("session_id", sessionId)
UpdateExpired(S, sessionId) ==
    [i \in DOMAIN S |->
        IF i = sessionId THEN [S[i] EXCEPT !.status = "expired"] ELSE S[i]]

\* a token insert that gives every token the default lifetime
InsertToken_defaultExpiry(T, sessionId, tokenHash, expiresAt) ==
    Append(T, [session_id |-> sessionId, token_hash |-> tokenHash,
               expires_at |-> now + DEFAULT_HOURS * HOUR_MS,
               revoked_at |-> Null])

\* from("session_resume_tokens").insert({.., revoked_at: null})
InsertToken(T, sessionId, tokenHash, expiresAt) ==
    Append(T, [session_id |-> sessionId, token_hash |-> tokenHash,
               expires_at |-> expiresAt, revoked_at |-> Null])

\* .select(..).eq("session_id").eq("token_hash").is("revoked_at", null)
TokenRows(sessionId, tokenHash) ==
    {i \in DOMAIN tokens :
        /\ tokens[i].session_id = sessionId
        /\ tokens[i].token_hash = tokenHash
        /\ tokens[i].revoked_at = Null}

\* .single(): the row when the query matches exactly one row, else an error
SelectToken(sessionId, tokenHash) ==
    LET rows == TokenRows(sessionId, tokenHash) IN
    IF Cardinality(rows) = 1 THEN CHOOSE i \in rows : TRUE ELSE 0

\* .update({ revoked_at }).eq("id", tokenRow.id); revokedAt is the nowIso()
\* of the call
RevokeToken(T, id, revokedAt) ==
    [i \in DOMAIN T |->
        IF i = id THEN [T[i] EXCEPT !.revoked_at = revokedAt] ELSE T[i]]

\* .update({ revoked_at }).eq("session_id").is("revoked_at", null)
RevokeAllTokens(T, sessionId, revokedAt) ==
    [i \in DOMAIN T |->
        IF T[i].session_id = sessionId /\ T[i].revoked_at = Null
        THEN [T[i] EXCEPT !.revoked_at = revokedAt] ELSE T[i]]

Unrevoked(sessionId) ==
    {i \in DOMAIN tokens :
        tokens[i].session_id = sessionId /\ tokens[i].revoked_at = Null}

\* the outcomes a store call can have: it fails at most MaxFailures times
StoreOutcomes == IF nfail < MaxFailures THEN {TRUE, FALSE} ELSE {TRUE}

Failed(ok) == nfail' = IF ok THEN nfail ELSE nfail + 1

-----------------------------------------------------------------------------
(* lib/ledgerQueue.ts: queueLedgerEvent *)

\* a variation of QueueRow: the row is inserted as already attempted once
QueueRow_attempted(sessionId, evId, eventType, nextRetryAt) ==
    [session_id |-> sessionId, ev_id |-> evId, event_type |-> eventType,
     status |-> "pending", attempts |-> 1, next_retry_at |-> nextRetryAt,
     tx_id |-> 0, event_key |-> <<>>, last_error |-> ""]

\* a variation of queueLedgerEvent: nothing is queued while the ledger
\* connection is absent
queueLedgerEvent_needsContract(sessionId, evId, eventType, nextRetryAt, ok) ==
    IF ok /\ contractUp
    THEN [rows |-> Append(ledger_queue,
                          [session_id |-> sessionId, ev_id |-> evId,
                           event_type |-> eventType, status |-> "pending",
                           attempts |-> 0, next_retry_at |-> nextRetryAt,
                           tx_id |-> 0, event_key |-> <<>>, last_error |-> ""]),
          queued |-> TRUE, queueId |-> Len(ledger_queue) + 1]
    ELSE [rows |-> ledger_queue, queued |-> FALSE, queueId |-> 0]

\* a variation of queueLedgerEvent: a failed insert is reported as queued
queueLedgerEvent_alwaysQueued(sessionId, evId, eventType, nextRetryAt, ok) ==
    [rows |-> IF ok
              THEN Append(ledger_queue,
                          [session_id |-> sessionId, ev_id |-> evId,
                           event_type |-> eventType, status |-> "pending",
                           attempts |-> 0, next_retry_at |-> nextRetryAt,
                           tx_id |-> 0, event_key |-> <<>>, last_error |-> ""])
              ELSE ledger_queue,
     queued |-> TRUE, queueId |-> Len(ledger_queue) + 1]

\* the row queueLedgerEvent builds when it is called: nextRetryAt is the
\* new Date() of the call
QueueRow(sessionId, evId, eventType, nextRetryAt) ==
    [session_id |-> sessionId, ev_id |-> evId, event_type |-> eventType,
     status |-> "pending", attempts |-> 0, next_retry_at |-> nextRetryAt,
     tx_id |-> 0, event_key |-> <<>>, last_error |-> ""]

\* queueLedgerEvent once its insert has reached the store (ok: the insert
\* did not fail); an insert error is logged and reported as queued = false.
\* rows is the table afterwards, queueId the data.id returned (0: null).
queueLedgerEvent(sessionId, evId, eventType, nextRetryAt, ok) ==
    IF ok
    THEN [rows |-> Append(ledger_queue,
                          QueueRow(sessionId, evId, eventType, nextRetryAt)),
          queued |-> TRUE, queueId |-> Len(ledger_queue) + 1]
    ELSE [rows |-> ledger_queue, queued |-> FALSE, queueId |-> 0]

-----------------------------------------------------------------------------
(* A store call in flight, and the store executing it *)

\* the call a handler awaits: text is a status or an event type, num a
\* power, a token hash or a token row's id, at the timestamp the handler
\* has put into the call
NoCall == [op |-> "none", sessionId |-> NoId, evId |-> NoEv, text |-> "",
           num |-> 0, at |-> 0]

Call(op, sessionId, evId, text, num, at) ==
    [op |-> op, sessionId |-> sessionId, evId |-> evId, text |-> text,
     num |-> num, at |-> at]

\* what the awaited call returns: ok (no error), the id of the row inserted
\* or selected, and the row selected
NoRet == [ok |-> TRUE, id |-> 0, row |-> NoData]

\* the store executes call c on the tables as they are now (ok: the call
\* does not fail): the tables afterwards and the answer
Exec(c, ok) ==
    LET same == [sessions |-> sessions, tokens |-> tokens,
                 queue |-> ledger_queue, ret |-> [NoRet EXCEPT !.ok = ok]]
    IN
    IF c.op = "insert_queue"
    THEN LET q == queueLedgerEvent(c.sessionId, c.evId, c.text, c.at, ok) IN
         [same EXCEPT !.queue = q.rows, !.ret.ok = q.queued,
                      !.ret.id = q.queueId]
    ELSE IF ~ok THEN same
    ELSE CASE c.op = "select_session" ->
                [same EXCEPT !.ret.row = SelectSession(c.sessionId, c.evId)]
           [] c.op = "insert_session" ->
                [same EXCEPT
                   !.sessions = InsertSession(sessions, c.evId, c.num, c.at),
                   !.ret.id = Len(sessions) + 1]
           [] c.op = "update_status" ->
                \* .select(..).single(): an error when no row was updated
                [same EXCEPT
                   !.sessions = UpdateStatus(sessions, c.sessionId, c.evId,
                                             c.text),
                   !.ret.ok = SelectSession(c.sessionId, c.evId).found]
           [] c.op = "update_expired" ->
                [same EXCEPT !.sessions = UpdateExpired(sessions, c.sessionId)]
           [] c.op = "insert_token" ->
                [same EXCEPT
                   !.tokens = InsertToken(tokens, c.sessionId, c.num, c.at)]
           [] c.op = "select_token" ->
                LET id == SelectToken(c.sessionId, c.num) IN
                [same EXCEPT
                   !.ret.ok = id # 0, !.ret.id = id,
                   !.ret.row = IF id = 0 THEN NoData
                               ELSE [found |-> TRUE, status |-> "",
                                     expires_at |-> tokens[id].expires_at]]
           [] c.op = "revoke_token" ->
                [same EXCEPT !.tokens = RevokeToken(tokens, c.num, c.at)]
           [] c.op = "revoke_all" ->
                [same EXCEPT
                   !.tokens = RevokeAllTokens(tokens, c.sessionId, c.at)]

\* the calls that write to charging_sessions or session_resume_tokens
WriteOps == {"insert_session", "update_status", "update_expired",
             "insert_token", "revoke_token", "revoke_all"}

-----------------------------------------------------------------------------
(* Handlers: locals, responses *)

NoLoc ==
    [cmd |-> "none", evId |-> NoEv, sessionId |-> NoId, resumeToken |-> NoSecret,
     powerRequired |-> 0, expiresAt |-> 0, session |-> NoData,
     tokenRowId |-> 0, newToken |-> NoSecret,
     call |-> NoCall, pending |-> FALSE, ret |-> NoRet,
     cond |-> FALSE, replay |-> FALSE, wrote |-> FALSE, werr |-> FALSE,
     enq |-> 0, emits |-> 0, stored |-> "", due |-> FALSE,
     prevCmd |-> "none", prevCode |-> 0, prevToken |-> NoSecret]

\* queueId 0 stands for queueId: null
NoRes == [code |-> 0, error |-> "", status |-> "", resumeToken |-> NoSecret,
          queueId |-> 0]

Err(code, error) == [NoRes EXCEPT !.code = code, !.error = error]

ErrStatus(code, error, status) ==
    [NoRes EXCEPT !.code = code, !.error = error, !.status = status]

\* res.json({ ok: true, session: { .., status, .. }, resumeToken, txId, queueId })
Ok(status, resumeToken, queueId) ==
    [code |-> 200, error |-> "", status |-> status,
     resumeToken |-> resumeToken, queueId |-> queueId]

\* emit(broadcast, eventName, obj)
emit(B, eventName, sessionId, queueId) ==
    Append(B, [eventName |-> eventName, sessionId |-> sessionId,
               queueId |-> queueId])

\* history: a write of this command to the session or token table took
\* effect (ok) or failed
Wrote(l, ok) == [l EXCEPT !.wrote = @ \/ ok, !.werr = @ \/ ~ok]

\* history: queueLedgerEvent has returned to the command, with result q, and
\* the command has called emit
Sent(l, q) ==
    [l EXCEPT !.enq = IF q.ok THEN @ + 1 ELSE @, !.emits = @ + 1]

\* history: the session row as stored when the request arrives (stored: its
\* status, "" without such a row; due: its expires_at has passed)
Arrived(l) ==
    LET row == SelectSession(l.sessionId, l.evId) IN
    [l EXCEPT !.stored = row.status,
              !.due = row.found /\ isExpired(row.expires_at)]

\* history: what the resume contract asks of the store of a resume, now
ResumeCond(evId, sessionId, resumeToken) ==
    /\ sessionId \in DOMAIN sessions
    /\ sessions[sessionId].ev_id = evId
    /\ isResumable(sessions[sessionId].status)
    /\ now < sessions[sessionId].expires_at
    /\ \E i \in Unrevoked(sessionId) :
        /\ tokens[i].token_hash = hashToken(resumeToken)
        /\ now < tokens[i].expires_at

\* history: the resume contract holds when a read of a resume reaches the
\* store
CondAtRead(l, c) ==
    /\ l.cmd = "resume"
    /\ c.op \in {"select_session", "select_token"}
    /\ ResumeCond(l.evId, l.sessionId, l.resumeToken)

Free(p) ==
    /\ pc[p] \in {"idle", "done"}
    /\ \A q \in Handlers : q < p => pc[q] \notin {"idle", "done"}
    /\ ncmd < MaxCommands

\* res.json(..) / res.status(..).json(..): the handler returns
Respond(p, l, r) ==
    /\ pc' = [pc EXCEPT ![p] = "done"]
    /\ res' = [res EXCEPT ![p] = r]
    /\ loc' = [loc EXCEPT ![p] =
                 [l EXCEPT !.session = NoData, !.tokenRowId = 0,
                           !.newToken = NoSecret, !.expiresAt = 0,
                           !.call = NoCall, !.pending = FALSE, !.ret = NoRet]]

Goto(p, l, label) ==
    /\ pc' = [pc EXCEPT ![p] = label]
    /\ loc' = [loc EXCEPT ![p] = l]
    /\ res' = [res EXCEPT ![p] = NoRes]

\* `await <store call>`: the call is issued and the handler is suspended at
\* label until the store has answered
Await(p, l, label, call) ==
    Goto(p, [l EXCEPT !.call = call, !.pending = TRUE, !.ret = NoRet], label)

\* the call the handler awaits at label has been answered
Resumes(p, label) == pc[p] = label /\ ~loc[p].pending

\* the store executes the call handler p awaits; the answer waits for the
\* handler to run on
Store(p) ==
    /\ loc[p].pending
    /\ \E ok \in StoreOutcomes :
        /\ Failed(ok)
        /\ LET c == loc[p].call
               r == Exec(c, ok)
               l == [loc[p] EXCEPT !.call = NoCall, !.pending = FALSE,
                                   !.ret = r.ret,
                                   !.cond = @ \/ CondAtRead(loc[p], c)]
           IN
           /\ sessions' = r.sessions
           /\ tokens' = r.tokens
           /\ ledger_queue' = r.queue
           /\ loc' = [loc EXCEPT ![p] =
                        IF c.op \in WriteOps THEN Wrote(l, r.ret.ok) ELSE l]
    /\ UNCHANGED <<now, nticks, queueVars, sessionCache, nextSecret, broadcasts,
                   pc, res, rotated, issued, ncmd>>

\* await queueLedgerEvent(sessionId, evId, eventType, ..): the row is built
\* with the clock of the call, and the insert is issued
AwaitQueue(p, l, label, eventType) ==
    Await(p, l, label,
          Call("insert_queue", l.sessionId, l.evId, eventType, 0, now))

-----------------------------------------------------------------------------
(* POST /start *)

\* the session inserts that are issued and have not reached the store
StartsInFlight ==
    Cardinality({q \in Handlers :
                    loc[q].pending /\ loc[q].call.op = "insert_session"})

\* the handler up to its first await: the checks of the body, expiresAt from
\* the clock, and the session insert issued; maxSessions caps the number of
\* rows of charging_sessions
StartReqWithin(p, evId, powerRequired, hours, maxSessions) ==
    /\ Free(p)
    /\ ncmd' = ncmd + 1
    /\ UNCHANGED <<now, nticks, queueVars, sessions, tokens, ledger_queue,
                   sessionCache, broadcasts, rotated, issued, nextSecret, nfail>>
    /\ LET l == [NoLoc EXCEPT !.cmd = "start", !.evId = evId,
                              !.powerRequired = powerRequired]
           expiresAt ==
               now + (IF hours = NoHours THEN DEFAULT_HOURS ELSE hours) * HOUR_MS
       IN
       IF evId = NoEv
       THEN Respond(p, l, Err(400, "evId is required"))
       ELSE IF powerRequired = NotANumber
       THEN Respond(p, l, Err(400, "powerRequired must be a number"))
       ELSE /\ Len(sessions) + StartsInFlight < maxSessions
            /\ Await(p, [l EXCEPT !.expiresAt = expiresAt], "start_session",
                     Call("insert_session", NoId, evId, "active", powerRequired,
                          expiresAt))

StartReq(p, evId, powerRequired, hours) ==
    StartReqWithin(p, evId, powerRequired, hours, MaxSessions)

\* after the session insert: the secret is drawn and the token insert issued
StartSession(p) ==
    /\ Resumes(p, "start_session")
    /\ UNCHANGED <<now, nticks, queueVars, sessions, tokens, ledger_queue,
                   sessionCache, broadcasts, rotated, issued, ncmd, nfail>>
    /\ LET l == loc[p] IN
       IF ~l.ret.ok
       THEN /\ Respond(p, l, Err(500, "Failed to create session"))
            /\ UNCHANGED nextSecret
       ELSE /\ nextSecret' = nextSecret + 1
            /\ LET newToken == generateResumeToken(nextSecret) IN
               Await(p, [l EXCEPT !.sessionId = l.ret.id, !.newToken = newToken],
                     "start_token",
                     Call("insert_token", l.ret.id, NoEv, "",
                          hashToken(newToken), l.expiresAt))

\* after the token insert: queueLedgerEvent is called
StartToken(p) ==
    /\ Resumes(p, "start_token")
    /\ UNCHANGED <<now, nticks, queueVars, sessions, tokens, ledger_queue,
                   sessionCache, broadcasts, rotated, issued, nextSecret, ncmd,
                   nfail>>
    /\ LET l == loc[p] IN
       IF ~l.ret.ok
       THEN Respond(p, l, Err(500, "store error"))
       ELSE AwaitQueue(p, l, "start_queue", "SessionStarted")

\* after queueLedgerEvent: the emit and the response
StartQueue(p) ==
    /\ Resumes(p, "start_queue")
    /\ UNCHANGED <<now, nticks, queueVars, sessions, tokens, ledger_queue,
                   sessionCache, rotated, nextSecret, ncmd, nfail>>
    /\ LET l == loc[p] IN
        /\ broadcasts' = emit(broadcasts, "SessionStarted", l.sessionId, l.ret.id)
        /\ issued' = issued \cup {l.newToken}
        /\ Respond(p, Sent(l, l.ret),
                   Ok("active", l.newToken, l.ret.id))

-----------------------------------------------------------------------------
(* getSessionCached, as the first await of pause, resume and stop *)

\* the handler's locals when getSessionCached returns a fresh cache entry
Lookup(l) ==
    [l EXCEPT !.session =
        [found |-> TRUE,
         status |-> sessionCache[getCacheKey(l.sessionId, l.evId)].status,
         expires_at |->
             sessionCache[getCacheKey(l.sessionId, l.evId)].expires_at]]

\* on a cache miss the select is issued; it reads the table when the store
\* executes it
AwaitSelect(p, l, label) ==
    Await(p, l, label, Call("select_session", l.sessionId, l.evId, "", 0, 0))

\* the handler's locals when the select has returned: `error || !data` is
\* no session
Selected(l) ==
    [l EXCEPT !.session = IF l.ret.ok THEN l.ret.row ELSE NoData]

\* await supabase...update({ status: "expired" }).eq("session_id", sessionId)
AwaitExpire(p, l, label) ==
    Await(p, l, label, Call("update_expired", l.sessionId, NoEv, "expired", 0, 0))

\* await supabase...update({ status }).eq(..).eq(..).select(..).single()
AwaitUpdate(p, l, label, status) ==
    Await(p, l, label, Call("update_status", l.sessionId, l.evId, status, 0, 0))

-----------------------------------------------------------------------------
(* POST /pause *)

PauseChecks(p, l) ==
    IF isTerminal(l.session.status)
    THEN Respond(p, l, ErrStatus(400, "Session already terminal", l.session.status))
    ELSE IF ~isActive(l.session.status)
    THEN Respond(p, l, ErrStatus(400, "already paused/disconnected",
                                 l.session.status))
    ELSE IF isExpired(l.session.expires_at)
    THEN AwaitExpire(p, l, "pause_expire")
    ELSE AwaitUpdate(p, l, "pause_update", "disconnected")

PauseReq(p, evId, sessionId) ==
    /\ Free(p)
    /\ ncmd' = ncmd + 1
    /\ UNCHANGED <<now, nticks, queueVars, sessions, tokens, ledger_queue,
                   sessionCache, broadcasts, rotated, issued, nextSecret, nfail>>
    /\ LET l == Arrived([NoLoc EXCEPT !.cmd = "pause", !.evId = evId,
                                      !.sessionId = sessionId])
       IN
       IF evId = NoEv
       THEN Respond(p, l, Err(400, "evId is required"))
       ELSE IF sessionId = NoId
       THEN Respond(p, l, Err(400, "sessionId is required"))
       ELSE IF CacheHit(sessionId, evId)
       THEN PauseChecks(p, Lookup(l))
       ELSE AwaitSelect(p, l, "pause_fill")

\* after the select of getSessionCached
PauseFill(p) ==
    /\ Resumes(p, "pause_fill")
    /\ UNCHANGED <<now, nticks, queueVars, sessions, tokens, ledger_queue,
                   broadcasts, rotated, issued, nextSecret, ncmd, nfail>>
    /\ LET l == Selected(loc[p]) IN
       IF ~l.session.found
       THEN Respond(p, l, Err(404, "Session not found")) /\ UNCHANGED sessionCache
       ELSE /\ sessionCache' = CacheSet(sessionCache, l.sessionId, l.evId, l.session)
            /\ PauseChecks(p, l)

\* after the expiry update, whose result is not looked at
PauseExpire(p) ==
    /\ Resumes(p, "pause_expire")
    /\ UNCHANGED <<now, nticks, queueVars, sessions, tokens, ledger_queue,
                   broadcasts, rotated, issued, nextSecret, ncmd, nfail>>
    /\ sessionCache' = invalidateSessionCache(sessionCache, loc[p].sessionId,
                                              loc[p].evId)
    /\ Respond(p, loc[p], Err(410, "Session expired"))

\* a pause that goes on to revoke the session's tokens as stop does
PauseUpdate_revoking(p) ==
    /\ Resumes(p, "pause_update")
    /\ UNCHANGED <<now, nticks, queueVars, sessions, tokens, ledger_queue,
                   broadcasts, rotated, issued, nextSecret, ncmd, nfail>>
    /\ LET l == loc[p] IN
       IF ~l.ret.ok
       THEN /\ Respond(p, l, Err(500, "Failed to pause session"))
            /\ UNCHANGED sessionCache
       ELSE /\ sessionCache' =
                   invalidateSessionCache(sessionCache, l.sessionId, l.evId)
            /\ Await(p, l, "pause_queue",
                     Call("revoke_all", l.sessionId, NoEv, "", 0, nowIso))

\* after the status update
PauseUpdate(p) ==
    /\ Resumes(p, "pause_update")
    /\ UNCHANGED <<now, nticks, queueVars, sessions, tokens, ledger_queue,
                   broadcasts, rotated, issued, nextSecret, ncmd, nfail>>
    /\ LET l == loc[p] IN
       IF ~l.ret.ok
       THEN /\ Respond(p, l, Err(500, "Failed to pause session"))
            /\ UNCHANGED sessionCache
       ELSE /\ sessionCache' =
                   invalidateSessionCache(sessionCache, l.sessionId, l.evId)
            /\ AwaitQueue(p, l, "pause_queue", "SessionPaused")

PauseQueue(p) ==
    /\ Resumes(p, "pause_queue")
    /\ UNCHANGED <<now, nticks, queueVars, sessions, tokens, ledger_queue,
                   sessionCache, rotated, issued, nextSecret, ncmd, nfail>>
    /\ LET l == loc[p] IN
        /\ broadcasts' = emit(broadcasts, "SessionPaused", l.sessionId, l.ret.id)
        /\ Respond(p, Sent(l, l.ret),
                   Ok("disconnected", NoSecret, l.ret.id))

-----------------------------------------------------------------------------
(* POST /resume *)

\* from the session checks to the token select
ResumeChecks(p, l) ==
    IF isTerminal(l.session.status)
    THEN Respond(p, l, ErrStatus(400, "cannot resume a terminated session",
                                 l.session.status))
    ELSE IF isActive(l.session.status)
    THEN Respond(p, l, ErrStatus(400, "already active - no need to resume",
                                 l.session.status))
    ELSE IF ~isResumable(l.session.status)
    THEN Respond(p, l, ErrStatus(400, "status does not allow resumption",
                                 l.session.status))
    ELSE IF isExpired(l.session.expires_at)
    THEN AwaitExpire(p, l, "resume_expire")
    ELSE Await(p, l, "resume_token",
               Call("select_token", l.sessionId, NoEv, "",
                    hashToken(l.resumeToken), 0))

ResumeReq(p, evId, sessionId, resumeToken) ==
    /\ Free(p)
    /\ ncmd' = ncmd + 1
    /\ UNCHANGED <<now, nticks, queueVars, sessions, tokens, ledger_queue,
                   sessionCache, broadcasts, rotated, issued, nextSecret, nfail>>
    /\ LET l == Arrived([NoLoc EXCEPT
                            !.cmd = "resume", !.evId = evId,
                            !.sessionId = sessionId,
                            !.resumeToken = resumeToken,
                            !.cond = ResumeCond(evId, sessionId, resumeToken),
                            !.replay = resumeToken \in rotated,
                            !.prevCmd = loc[p].cmd, !.prevCode = res[p].code,
                            !.prevToken = loc[p].resumeToken])
       IN
       IF evId = NoEv
       THEN Respond(p, l, Err(400, "evId is required"))
       ELSE IF sessionId = NoId
       THEN Respond(p, l, Err(400, "sessionId is required"))
       ELSE IF resumeToken = NoSecret
       THEN Respond(p, l, Err(400, "resumeToken is required"))
       ELSE IF CacheHit(sessionId, evId)
       THEN ResumeChecks(p, Lookup(l))
       ELSE AwaitSelect(p, l, "resume_fill")

ResumeFill(p) ==
    /\ Resumes(p, "resume_fill")
    /\ UNCHANGED <<now, nticks, queueVars, sessions, tokens, ledger_queue,
                   broadcasts, rotated, issued, nextSecret, ncmd, nfail>>
    /\ LET l == Selected(loc[p]) IN
       IF ~l.session.found
       THEN Respond(p, l, Err(404, "Session not found")) /\ UNCHANGED sessionCache
       ELSE /\ sessionCache' = CacheSet(sessionCache, l.sessionId, l.evId, l.session)
            /\ ResumeChecks(p, l)

\* after the expiry update, whose result is not looked at
ResumeExpire(p) ==
    /\ Resumes(p, "resume_expire")
    /\ UNCHANGED <<now, nticks, queueVars, sessions, tokens, ledger_queue,
                   broadcasts, rotated, issued, nextSecret, ncmd, nfail>>
    /\ sessionCache' = invalidateSessionCache(sessionCache, loc[p].sessionId,
                                              loc[p].evId)
    /\ AwaitQueue(p, loc[p], "resume_expire_queue", "SessionExpired")

ResumeExpireQueue(p) ==
    /\ Resumes(p, "resume_expire_queue")
    /\ UNCHANGED <<now, nticks, queueVars, sessions, tokens, ledger_queue,
                   sessionCache, rotated, issued, nextSecret, ncmd, nfail>>
    /\ LET l == loc[p] IN
        /\ broadcasts' = emit(broadcasts, "SessionExpired", l.sessionId, 0)
        /\ Respond(p, Sent(l, l.ret), Err(410, "Session expired"))

\* after the token select: the checks on its row; then the new secret is
\* drawn and the revoke of the presented token's row is issued
ResumeToken(p) ==
    /\ Resumes(p, "resume_token")
    /\ UNCHANGED <<now, nticks, queueVars, sessions, tokens, ledger_queue,
                   sessionCache, broadcasts, rotated, issued, ncmd, nfail>>
    /\ LET l == loc[p] IN
       IF ~l.ret.ok
       THEN /\ Respond(p, l, Err(401, "Invalid or revoked token"))
            /\ UNCHANGED nextSecret
       ELSE IF isExpired(l.ret.row.expires_at)
       THEN /\ Respond(p, l, Err(401, "Token expired"))
            /\ UNCHANGED nextSecret
       ELSE /\ nextSecret' = nextSecret + 1
            /\ Await(p, [l EXCEPT !.tokenRowId = l.ret.id,
                                  !.newToken = generateResumeToken(nextSecret)],
                     "resume_revoke",
                     Call("revoke_token", l.sessionId, NoEv, "", l.ret.id,
                          nowIso))

\* after the revoke, whose result is not looked at: the insert of the new
\* token
ResumeRevoke(p) ==
    /\ Resumes(p, "resume_revoke")
    /\ UNCHANGED <<now, nticks, queueVars, sessions, tokens, ledger_queue,
                   sessionCache, broadcasts, rotated, issued, nextSecret, ncmd,
                   nfail>>
    /\ LET l == loc[p] IN
       Await(p, l, "resume_insert",
             Call("insert_token", l.sessionId, NoEv, "", hashToken(l.newToken),
                  l.session.expires_at))

ResumeInsert(p) ==
    /\ Resumes(p, "resume_insert")
    /\ UNCHANGED <<now, nticks, queueVars, sessions, tokens, ledger_queue,
                   sessionCache, broadcasts, rotated, issued, nextSecret, ncmd,
                   nfail>>
    /\ LET l == loc[p] IN
       IF ~l.ret.ok
       THEN Respond(p, l, Err(500, "store error"))
       ELSE AwaitUpdate(p, l, "resume_update", "active")

ResumeUpdate(p) ==
    /\ Resumes(p, "resume_update")
    /\ UNCHANGED <<now, nticks, queueVars, sessions, tokens, ledger_queue,
                   broadcasts, rotated, issued, nextSecret, ncmd, nfail>>
    /\ LET l == loc[p] IN
       IF ~l.ret.ok
       THEN /\ Respond(p, l, Err(500, "Failed to resume session"))
            /\ UNCHANGED sessionCache
       ELSE /\ sessionCache' =
                   invalidateSessionCache(sessionCache, l.sessionId, l.evId)
            /\ AwaitQueue(p, l, "resume_queue", "SessionResumed")

ResumeQueue(p) ==
    /\ Resumes(p, "resume_queue")
    /\ UNCHANGED <<now, nticks, queueVars, sessions, tokens, ledger_queue,
                   sessionCache, nextSecret, ncmd, nfail>>
    /\ LET l == loc[p] IN
        /\ broadcasts' = emit(broadcasts, "SessionResumed", l.sessionId, l.ret.id)
        /\ rotated' = rotated \cup {l.resumeToken}
        /\ issued' = issued \cup {l.newToken}
        /\ Respond(p, Sent(l, l.ret),
                   Ok("active", l.newToken, l.ret.id))

-----------------------------------------------------------------------------
(* POST /stop *)

StopChecks(p, l) ==
    IF isTerminal(l.session.status)
    THEN Respond(p, l, ErrStatus(400, "Session already terminal", l.session.status))
    ELSE IF isExpired(l.session.expires_at)
    THEN AwaitExpire(p, l, "stop_expire")
    ELSE AwaitUpdate(p, l, "stop_update", "stopped")

\* a variation of StopReq: sessionId is not validated
StopReq_unvalidated(p, evId, sessionId) ==
    /\ Free(p)
    /\ ncmd' = ncmd + 1
    /\ UNCHANGED <<now, nticks, queueVars, sessions, tokens, ledger_queue,
                   sessionCache, broadcasts, rotated, issued, nextSecret, nfail>>
    /\ LET l == Arrived([NoLoc EXCEPT !.cmd = "stop", !.evId = evId,
                                      !.sessionId = sessionId])
       IN
       IF evId = NoEv
       THEN Respond(p, l, Err(400, "evId is required"))
       ELSE IF CacheHit(sessionId, evId)
       THEN StopChecks(p, Lookup(l))
       ELSE AwaitSelect(p, l, "stop_fill")

StopReq(p, evId, sessionId) ==
    /\ Free(p)
    /\ ncmd' = ncmd + 1
    /\ UNCHANGED <<now, nticks, queueVars, sessions, tokens, ledger_queue,
                   sessionCache, broadcasts, rotated, issued, nextSecret, nfail>>
    /\ LET l == Arrived([NoLoc EXCEPT !.cmd = "stop", !.evId = evId,
                                      !.sessionId = sessionId])
       IN
       IF evId = NoEv
       THEN Respond(p, l, Err(400, "evId is required"))
       ELSE IF sessionId = NoId
       THEN Respond(p, l, Err(400, "sessionId is required"))
       ELSE IF CacheHit(sessionId, evId)
       THEN StopChecks(p, Lookup(l))
       ELSE AwaitSelect(p, l, "stop_fill")

StopFill(p) ==
    /\ Resumes(p, "stop_fill")
    /\ UNCHANGED <<now, nticks, queueVars, sessions, tokens, ledger_queue,
                   broadcasts, rotated, issued, nextSecret, ncmd, nfail>>
    /\ LET l == Selected(loc[p]) IN
       IF ~l.session.found
       THEN Respond(p, l, Err(404, "Session not found")) /\ UNCHANGED sessionCache
       ELSE /\ sessionCache' = CacheSet(sessionCache, l.sessionId, l.evId, l.session)
            /\ StopChecks(p, l)

\* after the expiry update, whose result is not looked at
StopExpire(p) ==
    /\ Resumes(p, "stop_expire")
    /\ UNCHANGED <<now, nticks, queueVars, sessions, tokens, ledger_queue,
                   broadcasts, rotated, issued, nextSecret, ncmd, nfail>>
    /\ sessionCache' = invalidateSessionCache(sessionCache, loc[p].sessionId,
                                              loc[p].evId)
    /\ AwaitQueue(p, loc[p], "stop_expire_queue", "SessionExpired")

StopExpireQueue(p) ==
    /\ Resumes(p, "stop_expire_queue")
    /\ UNCHANGED <<now, nticks, queueVars, sessions, tokens, ledger_queue,
                   sessionCache, rotated, issued, nextSecret, ncmd, nfail>>
    /\ LET l == loc[p] IN
        /\ broadcasts' = emit(broadcasts, "SessionExpired", l.sessionId, 0)
        /\ Respond(p, Sent(l, l.ret), Err(410, "Session expired"))

\* after the status update: the revoke of all live tokens is issued
StopUpdate(p) ==
    /\ Resumes(p, "stop_update")
    /\ UNCHANGED <<now, nticks, queueVars, sessions, tokens, ledger_queue,
                   sessionCache, broadcasts, rotated, issued, nextSecret, ncmd,
                   nfail>>
    /\ LET l == loc[p] IN
       IF ~l.ret.ok
       THEN Respond(p, l, Err(500, "Failed to stop session"))
       ELSE Await(p, l, "stop_revoke",
                  Call("revoke_all", l.sessionId, NoEv, "", 0, nowIso))

\* after the revoke, whose result is not looked at
StopRevoke(p) ==
    /\ Resumes(p, "stop_revoke")
    /\ UNCHANGED <<now, nticks, queueVars, sessions, tokens, ledger_queue,
                   broadcasts, rotated, issued, nextSecret, ncmd, nfail>>
    /\ sessionCache' = invalidateSessionCache(sessionCache, loc[p].sessionId,
                                              loc[p].evId)
    /\ AwaitQueue(p, loc[p], "stop_queue", "SessionStopped")

StopQueue(p) ==
    /\ Resumes(p, "stop_queue")
    /\ UNCHANGED <<now, nticks, queueVars, sessions, tokens, ledger_queue,
                   sessionCache, rotated, issued, nextSecret, ncmd, nfail>>
    /\ LET l == loc[p] IN
        /\ broadcasts' = emit(broadcasts, "SessionStopped", l.sessionId, l.ret.id)
        /\ Respond(p, Sent(l, l.ret),
                   Ok("stopped", NoSecret, l.ret.id))

-----------------------------------------------------------------------------
(* lib/ledgerQueue.ts: the drain *)

\* the drain between two of its awaits.  at: the await it is suspended at;
\* pending: the awaited call has been issued and not yet executed; asOf: the
\* time the fetch filters by; nextRetry: the retry time the failure update
\* carries; ok, events, resp: the answer of the store or the ledger that
\* waits for the drain to run on; runs: the number of processQueue runs that
\* are past the guard
NoDrain == [at |-> "idle", batch |-> <<>>, pos |-> 0, txId |-> 0,
            error |-> "", runs |-> 0, pending |-> FALSE, asOf |-> 0,
            nextRetry |-> 0, ok |-> TRUE, events |-> <<>>, resp |-> ""]

\* the last call of POST /api/queue/retry.  at: where the call is (issued:
\* the update waits for the store, answered: the answer waits for the
\* function); nextRetryAt: the time the update carries; ok, data: the answer
NoRetry == [sessionId |-> NoId, count |-> 0, at |-> "idle", nextRetryAt |-> 0,
            ok |-> TRUE, data |-> 0]

\* a variation of Busy: the guard is never taken
Busy_never == FALSE

\* if (isProcessing) return
Busy == isProcessing

\* server.ts initFabric: the gateway connected and `contract` was set
InitFabric ==
    /\ ~contractUp
    /\ contractUp' = TRUE
    /\ UNCHANGED <<lifecycleVars, now, ledger_queue, broadcasts, ledger,
                   nextTx, isProcessing, drain, nfail, nticks, nretry, retried, nlost>>

\* a variation of Eligible: a row's retry time is not looked at
Eligible_noBackoff(i, asOf) ==
    /\ ledger_queue[i].status \in {"pending", "failed"}
    /\ ledger_queue[i].attempts < MAX_ATTEMPTS

\* a variation of Eligible: rows are fetched by their time alone
Eligible_due(i, asOf) == ledger_queue[i].next_retry_at <= asOf

\* .in("status", ["pending","failed"]).lte("next_retry_at", asOf)
\* .lt("attempts", MAX_ATTEMPTS), asOf being the time the query was built
Eligible(i, asOf) ==
    /\ ledger_queue[i].status \in {"pending", "failed"}
    /\ ledger_queue[i].next_retry_at <= asOf
    /\ ledger_queue[i].attempts < MAX_ATTEMPTS

RECURSIVE Take_blocking(_, _, _, _)
\* a variation of Take: the first row that is not eligible ends the batch
Take_blocking(i, n, acc, asOf) ==
    IF i > Len(ledger_queue) \/ n = 0 \/ ~Eligible(i, asOf) THEN acc
    ELSE Take_blocking(i + 1, n - 1,
                       Append(acc, [id |-> i,
                                    attempts |-> ledger_queue[i].attempts]),
                       asOf)

RECURSIVE Take(_, _, _, _)
\* the first n rows from index i on that are eligible, as the events fetched
Take(i, n, acc, asOf) ==
    IF i > Len(ledger_queue) \/ n = 0 THEN acc
    ELSE IF Eligible(i, asOf)
    THEN Take(i + 1, n - 1,
              Append(acc, [id |-> i, attempts |-> ledger_queue[i].attempts]),
              asOf)
    ELSE Take(i + 1, n, acc, asOf)

\* .order("created_at", { ascending: true }).limit(BATCH_SIZE), on the table
\* as it is when the store executes the select
FetchEvents(asOf) == Take(1, BATCH_SIZE, <<>>, asOf)

\* a variation of ProcessQueue: the contract is not looked at
ProcessQueue_anyway ==
    /\ ~Busy
    /\ isProcessing' = TRUE
    /\ drain' = [NoDrain EXCEPT !.at = "fetch", !.runs = drain.runs + 1,
                                !.pending = TRUE, !.asOf = now]
    /\ UNCHANGED <<lifecycleVars, now, ledger_queue, broadcasts, contractUp,
                   ledger, nextTx, nfail, nticks, nretry, retried, nlost>>

\* processQueue up to its first await: the flag is taken unless a drain is
\* running; without a contract the drain returns at once (finally: the flag
\* is released); with one the select is built with the clock and issued
ProcessQueue ==
    /\ ~Busy
    /\ IF contractUp
       THEN /\ isProcessing' = TRUE
            /\ drain' = [NoDrain EXCEPT !.at = "fetch", !.runs = drain.runs + 1,
                                        !.pending = TRUE, !.asOf = now]
       ELSE UNCHANGED <<isProcessing, drain>>
    /\ UNCHANGED <<lifecycleVars, now, ledger_queue, broadcasts, contractUp,
                   ledger, nextTx, nfail, nticks, nretry, retried, nlost>>

\* the status the catch branch writes, from the attempts the event was
\* fetched with
newStatus(event) ==
    IF event.attempts + 1 >= MAX_ATTEMPTS THEN "dead" ELSE "failed"

\* chaincode AppendSessionEvent: the key it puts and returns
EventKey(sessionId, eventType, txId) == <<"sess", sessionId, eventType, txId>>

AppendSessionEvent(L, sessionId, evId, eventType, txId) ==
    L \cup {[key |-> EventKey(sessionId, eventType, txId),
             sessionId |-> sessionId, evId |-> evId, eventType |-> eventType]}

\* the store executes the call the drain awaits, on the table as it is now:
\* the select of the fetch, or the update that marks, confirms or
\* reschedules the current row; the answer waits for the drain to run on
DrainStore ==
    /\ drain.pending
    /\ drain.at \in {"fetch", "mark", "confirm", "fail"}
    /\ \E ok \in StoreOutcomes :
        /\ Failed(ok)
        /\ IF drain.at = "fetch"
           THEN /\ drain' = [drain EXCEPT
                               !.pending = FALSE, !.ok = ok,
                               !.events = IF ok THEN FetchEvents(drain.asOf)
                                          ELSE <<>>]
                /\ UNCHANGED ledger_queue
           ELSE LET event == drain.batch[drain.pos]
                    row == ledger_queue[event.id]
                IN
                /\ drain' = [drain EXCEPT !.pending = FALSE, !.ok = ok]
                /\ ledger_queue' =
                     IF ~ok THEN ledger_queue
                     ELSE CASE drain.at = "mark" ->
                                 [ledger_queue EXCEPT
                                    ![event.id].status = "processing",
                                    ![event.id].attempts = event.attempts + 1]
                            [] drain.at = "confirm" ->
                                 [ledger_queue EXCEPT
                                    ![event.id].status = "confirmed",
                                    ![event.id].tx_id = drain.txId,
                                    ![event.id].event_key =
                                        EventKey(row.session_id, row.event_type,
                                                 drain.txId),
                                    ![event.id].last_error = ""]
                            [] drain.at = "fail" ->
                                 [ledger_queue EXCEPT
                                    ![event.id].status = newStatus(event),
                                    ![event.id].last_error = drain.error,
                                    ![event.id].next_retry_at = drain.nextRetry]
    /\ UNCHANGED <<lifecycleVars, now, broadcasts, contractUp, ledger, nextTx,
                   isProcessing, nticks, nretry, retried, nlost>>

\* what a submitted transaction can do: commit and answer, fail without
\* committing, or (at most MaxLost times) commit with the answer lost
LedgerOutcomes ==
    IF nlost < MaxLost THEN {"ok", "error", "lost"} ELSE {"ok", "error"}

\* the ledger executes the submitted transaction; its answer (or the
\* rejection of the promise) waits for the drain to run on
DrainLedger ==
    /\ drain.pending /\ drain.at = "submit"
    /\ LET event == drain.batch[drain.pos]
           row == ledger_queue[event.id]
       IN
       \E outcome \in LedgerOutcomes :
        /\ ledger' = IF outcome = "error" THEN ledger
                     ELSE AppendSessionEvent(ledger, row.session_id, row.ev_id,
                                             row.event_type, drain.txId)
        /\ drain' = [drain EXCEPT !.pending = FALSE, !.resp = outcome]
        /\ nlost' = IF outcome = "lost" THEN nlost + 1 ELSE nlost
    /\ UNCHANGED <<lifecycleVars, now, ledger_queue, broadcasts, contractUp,
                   nextTx, isProcessing, nfail, nticks, nretry, retried>>

\* processEvent up to its first await: the update that marks the event as
\* processing, with the attempts it was fetched with plus one, is issued
processEvent(d, pos) ==
    [d EXCEPT !.at = "mark", !.pos = pos, !.txId = 0, !.error = "",
              !.pending = TRUE, !.ok = TRUE, !.events = <<>>, !.resp = "",
              !.nextRetry = 0]

\* a variation of Advance: the end of the for loop leaves the flag set
Advance_holding(d) ==
    IF d.pos >= Len(d.batch)
    THEN drain' = NoDrain /\ UNCHANGED isProcessing
    ELSE /\ drain' = processEvent(d, d.pos + 1)
         /\ UNCHANGED isProcessing

\* the end of the for loop (finally: the flag is released), or the next
\* event
Advance(d) ==
    IF d.pos >= Len(d.batch)
    THEN isProcessing' = FALSE /\ drain' = NoDrain
    ELSE /\ drain' = processEvent(d, d.pos + 1)
         /\ UNCHANGED isProcessing

\* after the fetch: an error or no event ends the run; otherwise the loop
\* starts with the first event
DrainFetch ==
    /\ drain.at = "fetch" /\ ~drain.pending
    /\ IF ~drain.ok \/ Len(drain.events) = 0
       THEN isProcessing' = FALSE /\ drain' = NoDrain
       ELSE /\ drain' = processEvent([drain EXCEPT !.batch = drain.events,
                                                   !.asOf = 0], 1)
            /\ UNCHANGED isProcessing
    /\ UNCHANGED <<lifecycleVars, now, ledger_queue, broadcasts, contractUp,
                   ledger, nextTx, nfail, nticks, nretry, retried, nlost>>

\* after the mark update, whose error is not looked at: the transaction is
\* created and submitted
DrainMark ==
    /\ drain.at = "mark" /\ ~drain.pending
    /\ nextTx' = nextTx + 1
    /\ drain' = [drain EXCEPT !.at = "submit", !.txId = nextTx + 1,
                              !.pending = TRUE, !.ok = TRUE]
    /\ UNCHANGED <<lifecycleVars, now, ledger_queue, broadcasts, contractUp,
                   ledger, isProcessing, nfail, nticks, nretry, retried, nlost>>

\* a variation of Pow2: the delay grows by one base delay per attempt
Pow2_linear(n) == n + 1

RECURSIVE Pow2(_)
Pow2(n) == IF n = 0 THEN 1 ELSE 2 * Pow2(n - 1)

\* after await tx.submit(..): it has returned, and the update to confirmed
\* is issued; or it has thrown, and the catch branch computes the retry time
\* from the clock and the fetched attempts and issues the failure update
DrainSubmit ==
    /\ drain.at = "submit" /\ ~drain.pending
    /\ LET event == drain.batch[drain.pos] IN
       drain' = IF drain.resp = "ok"
                THEN [drain EXCEPT !.at = "confirm", !.pending = TRUE,
                                   !.resp = ""]
                ELSE [drain EXCEPT
                        !.at = "fail", !.pending = TRUE, !.resp = "",
                        !.error = drain.resp,
                        !.nextRetry =
                            now + RETRY_DELAY_MS * Pow2(event.attempts)]
    /\ UNCHANGED <<lifecycleVars, now, ledger_queue, broadcasts, contractUp,
                   ledger, nextTx, isProcessing, nfail, nticks, nretry,
                   retried, nlost>>

\* after the update to confirmed, whose error is not looked at: the
\* confirmation is broadcast, if (txId); then the loop goes on
DrainConfirm ==
    /\ drain.at = "confirm" /\ ~drain.pending
    /\ LET event == drain.batch[drain.pos]
           row == ledger_queue[event.id]
       IN
       broadcasts' =
            IF drain.txId # 0
            THEN Append(broadcasts,
                        [eventName |-> "Confirmed",
                         sessionId |-> row.session_id, queueId |-> event.id])
            ELSE broadcasts
    /\ Advance(drain)
    /\ UNCHANGED <<lifecycleVars, now, ledger_queue, contractUp, ledger, nextTx,
                   nfail, nticks, nretry, retried, nlost>>

\* after the failure update, whose error is not looked at: an event that
\* was to become dead is broadcast as failed; then the loop goes on
DrainFail ==
    /\ drain.at = "fail" /\ ~drain.pending
    /\ LET event == drain.batch[drain.pos]
           row == ledger_queue[event.id]
       IN
       broadcasts' =
            IF newStatus(event) = "dead"
            THEN Append(broadcasts,
                        [eventName |-> "Failed", sessionId |-> row.session_id,
                         queueId |-> event.id])
            ELSE broadcasts
    /\ Advance(drain)
    /\ UNCHANGED <<lifecycleVars, now, ledger_queue, contractUp, ledger, nextTx,
                   nfail, nticks, nretry, retried, nlost>>

\* a variation of DeadRows: the sessionId is not looked at
DeadRows_all(Q, sessionId) == {i \in DOMAIN Q : Q[i].status = "dead"}

\* .eq("status", "dead") and, with a sessionId, .eq("session_id", sessionId);
\* NoId stands for no sessionId
DeadRows(Q, sessionId) ==
    {i \in DOMAIN Q :
        /\ Q[i].status = "dead"
        /\ (sessionId = NoId \/ Q[i].session_id = sessionId)}

\* retryDeadEvents(sessionId?): the table after its update, nextRetryAt
\* being the time the update was built with
retryDeadEvents(Q, sessionId, nextRetryAt) ==
    [i \in DOMAIN Q |->
        IF i \in DeadRows(Q, sessionId)
        THEN [Q[i] EXCEPT !.status = "pending", !.attempts = 0,
                          !.next_retry_at = nextRetryAt, !.last_error = ""]
        ELSE Q[i]]

\* POST /api/queue/retry up to the await in retryDeadEvents: the update is
\* built with the clock and issued
RetryDead(sessionId) ==
    /\ nretry < MaxRetries
    /\ retried.at = "idle"
    /\ nretry' = nretry + 1
    /\ retried' = [NoRetry EXCEPT !.sessionId = sessionId, !.at = "issued",
                                  !.nextRetryAt = now]
    /\ UNCHANGED <<lifecycleVars, now, ledger_queue, broadcasts, contractUp,
                   ledger, nextTx, isProcessing, drain, nfail, nticks, nlost>>

\* the store executes that update on the rows that are dead now and returns
\* the ids of the rows it changed
RetryStore ==
    /\ retried.at = "issued"
    /\ \E ok \in StoreOutcomes :
        /\ Failed(ok)
        /\ ledger_queue' =
             IF ok
             THEN retryDeadEvents(ledger_queue, retried.sessionId,
                                  retried.nextRetryAt)
             ELSE ledger_queue
        /\ retried' =
             [retried EXCEPT
                !.at = "answered", !.ok = ok,
                !.data = IF ok
                         THEN Cardinality(DeadRows(ledger_queue,
                                                   retried.sessionId))
                         ELSE 0]
    /\ UNCHANGED <<lifecycleVars, now, broadcasts, contractUp, ledger, nextTx,
                   isProcessing, drain, nticks, nretry, nlost>>

\* retryDeadEvents runs on: 0 on an error, the number of rows otherwise;
\* the route answers retriedCount
RetryReturn ==
    /\ retried.at = "answered"
    /\ retried' = [retried EXCEPT
                     !.at = "idle", !.nextRetryAt = 0, !.ok = TRUE, !.data = 0,
                     !.count = IF retried.ok THEN retried.data ELSE 0]
    /\ UNCHANGED <<lifecycleVars, now, ledger_queue, broadcasts, contractUp,
                   ledger, nextTx, isProcessing, drain, nfail, nticks, nretry,
                   nlost>>

\* a caller of queueLedgerEvent, seen from the queue: the call builds the
\* row and issues the insert, which Store(1) brings to the table
Enqueue(sessionId, evId, eventType) ==
    /\ pc[1] = "idle"
    /\ Len(ledger_queue) < MaxQueued
    /\ Await(1, [NoLoc EXCEPT !.sessionId = sessionId, !.evId = evId],
             "enqueue",
             Call("insert_queue", sessionId, evId, eventType, 0, now))
    /\ UNCHANGED <<sessions, tokens, sessionCache, nextSecret, rotated, issued,
                   ncmd, now, ledger_queue, broadcasts, queueVars, nticks,
                   nfail>>

\* queueLedgerEvent returns to that caller
Enqueued ==
    /\ Resumes(1, "enqueue")
    /\ pc' = [pc EXCEPT ![1] = "idle"]
    /\ loc' = [loc EXCEPT ![1] = NoLoc]
    /\ UNCHANGED <<sessions, tokens, sessionCache, nextSecret, rotated, issued,
                   ncmd, res, now, ledger_queue, broadcasts, queueVars, nticks,
                   nfail>>

\* time passes until the next next_retry_at of a row, whatever its status
Waiting ==
    {i \in DOMAIN ledger_queue : ledger_queue[i].next_retry_at > now}

Wait ==
    /\ Waiting # {}
    /\ \E i \in Waiting :
        /\ \A j \in Waiting :
              ledger_queue[i].next_retry_at <= ledger_queue[j].next_retry_at
        /\ now' = ledger_queue[i].next_retry_at
    /\ UNCHANGED <<lifecycleVars, ledger_queue, broadcasts, queueVars, nfail,
                   nticks>>

\* the drain, with the store and the ledger executing what it awaits
Drain ==
    \/ ProcessQueue
    \/ DrainStore
    \/ DrainLedger
    \/ DrainFetch
    \/ DrainMark
    \/ DrainSubmit
    \/ DrainConfirm
    \/ DrainFail

-----------------------------------------------------------------------------
(* The clock *)

TickSteps == {CACHE_TTL_MS, DEFAULT_HOURS * HOUR_MS}

\* time passes; what the timers do with it are steps of their own
\* (SweepCache, ProcessQueue)
Tick ==
    /\ nticks < MaxTicks
    /\ \E d \in TickSteps : now' = now + d
    /\ nticks' = nticks + 1
    /\ UNCHANGED <<sessions, tokens, ledger_queue, sessionCache, nextSecret,
                   broadcasts, pc, loc, res, rotated, issued, queueVars, ncmd, nfail>>

\* the cache entries older than the TTL
Stale == {k \in DOMAIN sessionCache :
             now - sessionCache[k].cached_at > CACHE_TTL_MS}

\* the callback of the sweeper's setInterval: it deletes the entries older
\* than the TTL; it is a step when there is such an entry
SweepCache ==
    /\ Stale # {}
    /\ sessionCache' = [k \in DOMAIN sessionCache \ Stale |-> sessionCache[k]]
    /\ UNCHANGED <<sessions, tokens, ledger_queue, nextSecret, broadcasts, pc,
                   loc, res, rotated, issued, queueVars, ncmd, nfail, now,
                   nticks>>

\* the clock and the sweeper
Clock == Tick \/ SweepCache

-----------------------------------------------------------------------------
(* The lifecycle engine under concurrent requests *)

InitStore ==
    /\ now = 0
    /\ sessions = <<>>
    /\ tokens = <<>>
    /\ ledger_queue = <<>>
    /\ sessionCache = <<>>
    /\ nextSecret = 0
    /\ broadcasts = <<>>
    /\ pc = [p \in Handlers |-> "idle"]
    /\ loc = [p \in Handlers |-> NoLoc]
    /\ res = [p \in Handlers |-> NoRes]
    /\ rotated = {}
    /\ issued = {}
    /\ contractUp = FALSE
    /\ ledger = {}
    /\ nextTx = 0
    /\ isProcessing = FALSE
    /\ drain = NoDrain
    /\ ncmd = 0
    /\ nticks = 0
    /\ nretry = 0
    /\ retried = NoRetry

\* the server after construction; store calls may fail and answers of the
\* ledger may be lost
Init == InitStore /\ nfail = 0 /\ nlost = 0

\* the same with a store whose calls all succeed
InitReliable == InitStore /\ nfail = MaxFailures /\ nlost = 0

EvInputs == {"EV1"}
\* a caller knows the session ids and the secrets that responses carried
SessionInputs ==
    {s \in DOMAIN sessions :
        \E i \in DOMAIN broadcasts :
            /\ broadcasts[i].eventName = "SessionStarted"
            /\ broadcasts[i].sessionId = s}
SecretInputs == issued
HoursInputs == {0, NoHours}

Request(p) ==
    \/ \E ev \in EvInputs, h \in HoursInputs : StartReq(p, ev, 10, h)
    \/ \E ev \in EvInputs, s \in SessionInputs : PauseReq(p, ev, s)
    \/ \E ev \in EvInputs, s \in SessionInputs, t \in SecretInputs :
          ResumeReq(p, ev, s, t)
    \/ \E ev \in EvInputs, s \in SessionInputs : StopReq(p, ev, s)

Step(p) ==
    \/ Store(p)
    \/ StartSession(p) \/ StartToken(p) \/ StartQueue(p)
    \/ PauseFill(p) \/ PauseExpire(p) \/ PauseUpdate(p) \/ PauseQueue(p)
    \/ ResumeFill(p) \/ ResumeExpire(p) \/ ResumeExpireQueue(p)
    \/ ResumeToken(p) \/ ResumeRevoke(p) \/ ResumeInsert(p)
    \/ ResumeUpdate(p) \/ ResumeQueue(p)
    \/ StopFill(p) \/ StopExpire(p) \/ StopExpireQueue(p)
    \/ StopUpdate(p) \/ StopRevoke(p) \/ StopQueue(p)

\* two handlers take MaxRaceCommands requests between them
Next ==
    \/ \E p \in Handlers :
          \/ ncmd < MaxRaceCommands /\ Request(p)
          \/ Step(p)
    \/ Clock

Spec == Init /\ [][Next]_vars

\* concurrent requests against a store that never fails
NextRace == Next

SpecRace == InitReliable /\ [][NextRace]_vars

-----------------------------------------------------------------------------
(* One command after the other, store calls never failing *)

NextSeq ==
    \/ Request(1) \/ Step(1)
    \/ Clock

SpecSeq == InitReliable /\ [][NextSeq]_vars

\* the same with a store of which one call may fail
SpecSeqFaulty == Init /\ [][NextSeq]_vars

-----------------------------------------------------------------------------
(* One handler at a time, with the queue drain and the ledger *)

\* the steps a command can come to while the clock stands still: a session
\* started with expiresInHours = 0 has run out at once, which pause and stop
\* find; a resumable session that has run out takes time passing
StepNoClock(p) ==
    \/ Store(p)
    \/ StartSession(p) \/ StartToken(p) \/ StartQueue(p)
    \/ PauseFill(p) \/ PauseExpire(p) \/ PauseUpdate(p) \/ PauseQueue(p)
    \/ ResumeFill(p) \/ ResumeToken(p) \/ ResumeRevoke(p) \/ ResumeInsert(p)
    \/ ResumeUpdate(p) \/ ResumeQueue(p)
    \/ StopFill(p) \/ StopExpire(p) \/ StopExpireQueue(p)
    \/ StopUpdate(p) \/ StopRevoke(p) \/ StopQueue(p)

\* one handler takes MaxRaceCommands requests
NextLedger ==
    \/ ncmd < MaxRaceCommands /\ Request(1)
    \/ StepNoClock(1)
    \/ InitFabric
    \/ Drain

SpecLedger == Init /\ [][NextLedger]_vars

-----------------------------------------------------------------------------
(* The ledger write queue on its own *)

QueueSessions == {1, 2}
QueueEvents == {"SessionStarted"}

\* POST /api/queue/retry
Retry ==
    \/ \E s \in QueueSessions \cup {NoId} : RetryDead(s)
    \/ RetryStore
    \/ RetryReturn

\* up to MaxQueued events, their drains and the back-off waits, with a
\* store whose calls all succeed
NextQueue ==
    \/ \E s \in QueueSessions, e \in QueueEvents : Enqueue(s, "EV1", e)
    \/ Store(1) \/ Enqueued
    \/ InitFabric
    \/ Drain
    \/ Wait

SpecQueue == InitReliable /\ [][NextQueue]_vars

-----------------------------------------------------------------------------
(* One queued event under a drain loop that keeps running *)

NextDrain ==
    \/ /\ ledger_queue = <<>>
       /\ \E s \in QueueSessions, e \in QueueEvents : Enqueue(s, "EV1", e)
    \/ Store(1) \/ Enqueued
    \/ InitFabric
    \/ Drain
    \/ Wait

\* setInterval(processQueue, POLL_INTERVAL_MS) keeps calling the drain, every
\* await of the drain returns and time passes; initFabric is called once,
\* and whether the gateway ever connects is left open
FairDrain ==
    /\ WF_vars(Drain)
    /\ WF_vars(Wait)

SpecDrain == Init /\ [][NextDrain]_vars /\ FairDrain

\* the same with a store whose calls all succeed
SpecDrainReliable == InitReliable /\ [][NextDrain]_vars /\ FairDrain

-----------------------------------------------------------------------------
(* One handler, requests with missing or wrongly typed fields included *)

\* NoEv, NoId, NoSecret: the field is absent or not a string; NotANumber:
\* powerRequired is absent, not a number or NaN
RequestAny(p) ==
    \/ \E ev \in EvInputs \cup {NoEv}, pw \in {10, NotANumber},
          h \in HoursInputs : StartReq(p, ev, pw, h)
    \/ \E ev \in EvInputs \cup {NoEv}, s \in SessionInputs \cup {NoId} :
          PauseReq(p, ev, s)
    \/ \E ev \in EvInputs \cup {NoEv}, s \in SessionInputs \cup {NoId},
          t \in SecretInputs \cup {NoSecret} : ResumeReq(p, ev, s, t)
    \/ \E ev \in EvInputs \cup {NoEv}, s \in SessionInputs \cup {NoId} :
          StopReq(p, ev, s)

NextInputs ==
    \/ RequestAny(1) \/ Step(1)
    \/ Clock

SpecInputs == Init /\ [][NextInputs]_vars

-----------------------------------------------------------------------------
(* Several sessions of one evId, one command after the other *)

StartHours == HoursInputs \cup {1}

NextStart ==
    \/ \E ev \in EvInputs, h \in StartHours :
          StartReqWithin(1, ev, 10, h, MaxStarts)
    \/ \E ev \in EvInputs, s \in SessionInputs : PauseReq(1, ev, s)
    \/ \E ev \in EvInputs, s \in SessionInputs, t \in SecretInputs :
          ResumeReq(1, ev, s, t)
    \/ \E ev \in EvInputs, s \in SessionInputs : StopReq(1, ev, s)
    \/ Step(1)
    \/ Clock

SpecStart == InitReliable /\ [][NextStart]_vars

-----------------------------------------------------------------------------
(* Requests that name a session with an evId that may not be the session's,
   or with a sessionId that holds a colon *)

\* the evId of the sessions, and the evId that a request pairs with
\* ColonSessionId to get the cache key of session 1
EvAny == {"X:Y", "Y"}

SessionAny == SessionInputs \cup {ColonSessionId}

RequestEv(p) ==
    \/ \E h \in HoursInputs : StartReq(p, "X:Y", 10, h)
    \/ \E ev \in EvAny, s \in SessionAny : PauseReq(p, ev, s)
    \/ \E ev \in EvAny, s \in SessionAny, t \in SecretInputs :
          ResumeReq(p, ev, s, t)
    \/ \E ev \in EvAny, s \in SessionAny : StopReq(p, ev, s)

NextEv ==
    \/ \E p \in Handlers :
          \/ ncmd < MaxRaceCommands /\ RequestEv(p)
          \/ Step(p)
    \/ Clock

SpecEv == InitReliable /\ [][NextEv]_vars

-----------------------------------------------------------------------------
(* One run of drains over a queue table that is longer than a batch *)

\* a row that is due, and a row whose first attempt has just failed: it is
\* in its back-off, which the catch branch took from the fetched attempts, 0
DueRow(sessionId) == QueueRow(sessionId, "EV1", "SessionStarted", 0)

BackoffRow(sessionId) ==
    [DueRow(sessionId) EXCEPT !.status = "failed", !.attempts = 1,
                              !.next_retry_at =
                                  now + RETRY_DELAY_MS * Pow2(0),
                              !.last_error = "error"]

\* the tables of up to MaxRows rows, in the order of their creation
QueueTables ==
    UNION {{[i \in 1..n |-> IF k[i] THEN DueRow(1) ELSE BackoffRow(1)] :
               k \in [1..n -> BOOLEAN]} : n \in 0..MaxRows}

InitFetch ==
    /\ now = 0
    /\ sessions = <<>> /\ tokens = <<>> /\ sessionCache = <<>>
    /\ nextSecret = 0 /\ broadcasts = <<>>
    /\ pc = [p \in Handlers |-> "idle"]
    /\ loc = [p \in Handlers |-> NoLoc]
    /\ res = [p \in Handlers |-> NoRes]
    /\ rotated = {} /\ issued = {}
    /\ ledger_queue \in QueueTables
    /\ contractUp = TRUE
    /\ ledger = {}
    /\ nextTx = Cardinality({i \in DOMAIN ledger_queue :
                                ledger_queue[i].attempts = 1})
    /\ isProcessing = FALSE /\ drain = NoDrain
    /\ ncmd = 0 /\ nticks = 0 /\ nretry = 0 /\ retried = NoRetry
    /\ nfail = MaxFailures /\ nlost = MaxLost

SpecFetch == InitFetch /\ [][Drain]_vars

-----------------------------------------------------------------------------
(* One queued event, the drain and the retry of dead events *)

NextRequeue ==
    \/ /\ ledger_queue = <<>>
       /\ \E s \in QueueSessions, e \in QueueEvents : Enqueue(s, "EV1", e)
    \/ Store(1) \/ Enqueued
    \/ InitFabric
    \/ Drain
    \/ Wait
    \/ Retry

SpecRequeue == Init /\ [][NextRequeue]_vars

\* the same with a store whose calls all succeed
SpecRequeueReliable == InitReliable /\ [][NextRequeue]_vars

-----------------------------------------------------------------------------
(* Claims *)

Done(p) == pc[p] = "done"

\* in this step the store executes the call handler p awaits
Executes(p) == loc[p].pending /\ ~loc'[p].pending

\* this step is a step of handler p
StepOf(p) == pc'[p] # pc[p] \/ loc'[p] # loc[p]

\* the secrets a resume of the session would accept now
LiveHashes(sessionId) == {tokens[i].token_hash : i \in Unrevoked(sessionId)}

\* a message with this name was broadcast for the session
Broadcast(eventName, sessionId) ==
    \E i \in DOMAIN broadcasts :
        /\ broadcasts[i].eventName = eventName
        /\ broadcasts[i].sessionId = sessionId

\* C1: once a session's stored status is stopped or expired, no step of any
\* command changes that stored status.
C1_TerminalAbsorbing ==
    [][\A s \in DOMAIN sessions :
          isTerminal(sessions[s].status)
              => sessions'[s].status = sessions[s].status]_vars

\* C2: a resume returns success only if, when it was handled (when it
\* arrived, or when one of its reads reached the store), the stored status
\* was paused or disconnected, now < expiresAt, and the secret hashed to an
\* unrevoked, unexpired token row of the session; otherwise it is rejected.
C2_ResumeOnlyIfCond ==
    \A p \in Handlers :
        (Done(p) /\ loc[p].cmd = "resume" /\ res[p].code = 200) => loc[p].cond

\* C3: each session has at most one token row with revoked_at = null.
C3_AtMostOneLiveToken ==
    \A s \in DOMAIN sessions : Cardinality(Unrevoked(s)) <= 1

\* C4: of two resumes that presented the same secret for the same session, at
\* most one returns success, and they do not leave two secrets that a later
\* resume would accept.
C4_OneResumeWins ==
    \A p, q \in Handlers :
        (/\ p # q /\ Done(p) /\ Done(q)
         /\ loc[p].cmd = "resume" /\ loc[q].cmd = "resume"
         /\ loc[p].sessionId = loc[q].sessionId
         /\ loc[p].resumeToken = loc[q].resumeToken
         /\ loc[p].cond /\ loc[q].cond)
        => /\ ~(res[p].code = 200 /\ res[q].code = 200)
           /\ Cardinality(LiveHashes(loc[p].sessionId)) <= 1

\* C5: a resume that presents a secret which an earlier successful resume
\* has rotated away is rejected.
C5_OldSecretRejected ==
    \A p \in Handlers :
        (Done(p) /\ loc[p].cmd = "resume" /\ loc[p].replay) => res[p].code # 200

\* C6: once stop has returned success for a session, the session has no
\* token row with revoked_at = null.
C6_StopLeavesNoLiveToken ==
    \A s \in DOMAIN sessions :
        Broadcast("SessionStopped", s) => Unrevoked(s) = {}

\* the event a command queues when it succeeds
EventOf(cmd) ==
    CASE cmd = "start" -> "SessionStarted"
      [] cmd = "pause" -> "SessionPaused"
      [] cmd = "resume" -> "SessionResumed"
      [] cmd = "stop" -> "SessionStopped"
      [] OTHER -> "none"

\* the command's response names a queue row that is the pending, never
\* attempted event of this command
QueuedItsEvent(p) ==
    /\ res[p].queueId \in DOMAIN ledger_queue
    /\ ledger_queue[res[p].queueId].session_id = loc[p].sessionId
    /\ ledger_queue[res[p].queueId].event_type = EventOf(loc[p].cmd)
    /\ ledger_queue[res[p].queueId].status = "pending"
    /\ ledger_queue[res[p].queueId].attempts = 0

\* rejected before any transition was attempted: a validation, precondition,
\* security or store error
RejectedEarly(p) == res[p].code \in {400, 401, 404, 500}

\* C7 (as claimed): every command that returns success has inserted exactly
\* one queue row, pending with attempts = 0, for its session and event type;
\* a command rejected without a transition has inserted none.
C7_SuccessQueuesOne ==
    \A p \in Handlers :
        Done(p) =>
            /\ res[p].code = 200 => loc[p].enq = 1 /\ QueuedItsEvent(p)
            /\ RejectedEarly(p) => loc[p].enq = 0

\* the queue insert of the command p has answered failed: queueLedgerEvent
\* returned queueId: null, which the response carries
InsertFailed(p) == res[p].queueId = 0

\* C7 (amended): a command that returns success has inserted exactly one
\* such row unless its queue insert failed, and then it has inserted none; a
\* command rejected without a transition has inserted none.
C7_SuccessQueuesOneIfQueued ==
    \A p \in Handlers :
        Done(p) =>
            /\ (res[p].code = 200 /\ ~InsertFailed(p))
                   => loc[p].enq = 1 /\ QueuedItsEvent(p)
            /\ (res[p].code = 200 /\ InsertFailed(p))
                   => loc[p].enq = 0
            /\ RejectedEarly(p) => loc[p].enq = 0

\* C7: a resume has returned success and names the row it queued
C7_ResumeQueued ==
    \E p \in Handlers :
        /\ Done(p) /\ loc[p].cmd = "resume"
        /\ res[p].code = 200 /\ ~InsertFailed(p)
        /\ loc[p].enq = 1 /\ QueuedItsEvent(p)

\* C9: a command in which a write to the session or token table failed
\* reports an error and has changed no session, token or queue row.
C9_AllOrNothing ==
    \A p \in Handlers :
        (Done(p) /\ loc[p].werr)
            => res[p].code = 500 /\ ~loc[p].wrote /\ loc[p].enq = 0

\* the row has reached an end of its processing
Settled(i) == ledger_queue[i].status \in {"confirmed", "dead"}

\* C8: under a fair drain, once the ledger is connected and with every
\* submit returning, every queued event eventually is confirmed or dead.
C8_EventuallySettled ==
    (contractUp /\ ledger_queue # <<>>)
    ~> (\A i \in DOMAIN ledger_queue : Settled(i))

\* C8: a row left in `processing` by a drain that has ended
C8_StuckProcessing ==
    \E i \in DOMAIN ledger_queue :
        /\ ledger_queue[i].status = "processing"
        /\ ~isProcessing

\* a step of the ledger side: the connection, the drain or the ledger moved
LedgerStep == queueVars' # queueVars

\* handler p returns in this step
Returns(p) == pc[p] # "done" /\ pc'[p] = "done"

\* C10: what a command returns and the session and token rows it leaves do
\* not depend on the ledger: no step of the ledger side touches the state
\* of the commands, a queue insert is answered as failed only when the
\* store failed on it, a command that succeeds carries a queueId exactly
\* when the insert was answered as done, no command step touches the ledger
\* side, and a command in flight
\* can always take its next step, whatever the connection and the drain are
\* doing.
C10_LedgerIndependent ==
    /\ [](\A p \in Handlers :
            pc[p] \notin {"idle", "done"} => ENABLED StepNoClock(p))
    /\ [][/\ LedgerStep => UNCHANGED lifecycleVars
          /\ \A p \in Handlers :
                /\ StepOf(p) => UNCHANGED queueVars
                /\ (Executes(p) /\ loc[p].call.op = "insert_queue")
                      => (loc'[p].ret.ok <=> nfail' = nfail)
                /\ (Returns(p) /\ res'[p].code = 200)
                      => (res'[p].queueId # 0 <=> loc[p].ret.ok)]_vars

\* C10: the whole life of a session, start to stop, has succeeded while the
\* ledger connection was absent, each event queued
C10_StoppedWithoutLedger ==
    /\ ~contractUp
    /\ Done(1) /\ loc[1].cmd = "stop"
    /\ res[1].code = 200 /\ res[1].queueId # 0
    /\ Len(ledger_queue) = 2

\* handler p has answered a pause, resume or stop
Answered(p) == Done(p) /\ loc[p].cmd \in {"pause", "resume", "stop"}

\* C11: a pause, resume or stop on a session whose stored status is not
\* terminal and whose expires_at has passed returns 410 "Session expired"
\* and leaves the stored status expired.
C11_ExpiredFirst ==
    \A p \in Handlers :
        (/\ Answered(p)
         /\ loc[p].due /\ loc[p].stored # "" /\ ~isTerminal(loc[p].stored))
        => /\ res[p].code = 410 /\ res[p].error = "Session expired"
           /\ sessions[loc[p].sessionId].status = "expired"

\* the status update of handler p's command reaches the store in this step
StatusWrite(p) ==
    /\ pc[p] \in {"pause_update", "resume_update", "stop_update"}
    /\ Executes(p)

\* handler p runs on after its status update
AfterStatusWrite(p) ==
    /\ pc[p] \in {"pause_update", "resume_update", "stop_update"}
    /\ ~loc[p].pending /\ pc'[p] # pc[p]

\* C12: the status write of pause, resume and stop is conditioned on the
\* status the command validated: when the stored status is no longer that
\* status, the write changes no row and the command reports a precondition
\* failure.
C12_ConditionalWrite ==
    [][\A p \in Handlers :
          /\ (/\ StatusWrite(p)
              /\ sessions[loc[p].sessionId].status # loc[p].session.status)
             => sessions' = sessions /\ ~loc'[p].ret.ok
          /\ (AfterStatusWrite(p) /\ ~loc[p].ret.ok)
             => /\ pc'[p] = "done"
                /\ res'[p].code \in {400, 409, 412, 500}]_vars

\* a dead row of the session asked for (NoId: of any session)
DeadOf(sid) ==
    {i \in DOMAIN ledger_queue :
        /\ ledger_queue[i].status = "dead"
        /\ (sid = NoId \/ ledger_queue[i].session_id = sid)}

\* the steps of a call of retryDeadEvents: the update is built and issued,
\* the store executes it, the call returns its count
RetryIssued == retried.at = "idle" /\ retried'.at = "issued"
RetryExecutes == retried.at = "issued" /\ retried'.at = "answered"
RetryReturns == retried.at = "answered" /\ retried'.at = "idle"

\* C13: a call of retryDeadEvents changes only dead rows of the session it
\* was given (of every session when none was given); each row it changes
\* becomes pending with attempts 0 and next_retry_at = the time of the
\* call; a call whose update succeeds resets all the rows that are dead
\* when the store executes it; the count it returns is the number of rows
\* it reset.
C13_RetryResetsDead ==
    [][/\ RetryIssued
          => /\ retried'.nextRetryAt = now
             /\ UNCHANGED ledger_queue
       /\ RetryExecutes
          => LET dead == DeadOf(retried.sessionId)
                 reset == {i \in DOMAIN ledger_queue :
                              ledger_queue'[i] # ledger_queue[i]}
             IN /\ DOMAIN ledger_queue' = DOMAIN ledger_queue
                /\ reset \subseteq dead
                /\ (nfail' = nfail) => (reset = dead)
                /\ \A i \in reset :
                     ledger_queue'[i] =
                       [ledger_queue[i] EXCEPT
                          !.status = "pending", !.attempts = 0,
                          !.next_retry_at = retried.nextRetryAt,
                          !.last_error = ""]
                /\ retried'.data = Cardinality(reset)
       /\ RetryReturns
          => /\ retried'.count = retried.data
             /\ UNCHANGED ledger_queue]_vars

\* a retry for session 1 has reset its dead row and returned 1
C13_SessionRowReset ==
    /\ retried.sessionId = 1 /\ retried.at = "idle" /\ retried.count = 1
    /\ \E i \in DOMAIN ledger_queue :
         /\ ledger_queue[i].session_id = 1
         /\ ledger_queue[i].status = "pending"
         /\ ledger_queue[i].attempts = 0
         /\ ledger_queue[i].next_retry_at = now
         /\ nextTx >= MAX_ATTEMPTS

\* the row the drain is working on
Current == ledger_queue[drain.batch[drain.pos].id]

\* in this step the store, or the ledger, executes the call the drain
\* awaits at `at`
DrainExecutes(at) == drain.at = at /\ drain.pending /\ ~drain'.pending

\* in this step the drain runs on after the call it awaited at `at`
DrainRunsOn(at) == drain.at = at /\ ~drain.pending /\ drain' # drain

\* the drain has still to write to its current row in this attempt
HasToWrite ==
    \/ drain.at \in {"mark", "submit", "confirm"}
    \/ drain.at = "fail" /\ drain.pending

\* C14: a row in status dead is changed by no step other than the update
\* of a retryDeadEvents call, a fetch never returns a dead row, and the row
\* a drain is marking, submitting, confirming or rescheduling is never a
\* dead row.
C14_DeadOnlyByRetry ==
    /\ [][/\ \A i \in DOMAIN ledger_queue :
               (/\ ledger_queue[i].status = "dead"
                /\ ledger_queue'[i] # ledger_queue[i])
               => RetryExecutes
          /\ DrainExecutes("fetch")
               => \A k \in DOMAIN drain'.events :
                     ledger_queue[drain'.events[k].id].status # "dead"]_vars
    /\ [](HasToWrite => Current.status # "dead")

\* the select of a drain is under way, built when a dead row's retry time
\* had passed
C14_DrainOverDeadRow ==
    /\ \E i \in DOMAIN ledger_queue :
         /\ ledger_queue[i].status = "dead"
         /\ ledger_queue[i].attempts = MAX_ATTEMPTS
         /\ ledger_queue[i].next_retry_at <= drain.asOf
    /\ isProcessing /\ drain.at = "fetch" /\ drain.pending
    /\ nretry = 0

\* the ledger entries written for queue row i
EntriesOf(i) ==
    {x \in ledger : /\ x.sessionId = ledger_queue[i].session_id
                    /\ x.eventType = ledger_queue[i].event_type}

\* C15: however often the ledger write of a queue row is submitted, the
\* ledger holds at most one entry for it.
C15_OneEntryPerRow ==
    Len(ledger_queue) = 1 => Cardinality(EntriesOf(1)) <= 1

\* the row is confirmed and the ledger holds two entries for it, under
\* two keys
C15_TwoEntries ==
    /\ Len(ledger_queue) = 1
    /\ ledger_queue[1].status = "confirmed"
    /\ \E x, y \in EntriesOf(1) : x.key # y.key

\* C16: at most one processQueue run is past the guard at any time: the flag
\* is set exactly while a run is between its fetch and its end, and a run
\* never starts while another is in progress.
C16_OneDrain ==
    /\ drain.runs <= 1
    /\ isProcessing <=> (drain.runs = 1)
    /\ isProcessing <=> (drain.at # "idle")

\* a drain is waiting for the ledger's answer on a row it has marked: the
\* interval's next trigger falls into the run
C16_DrainInProgress ==
    /\ isProcessing /\ drain.at = "submit"
    /\ Current.status = "processing"
    /\ Current.attempts > 1

\* handler p awaits the queue insert of the event of its transition
AtQueueInsert(p) ==
    pc[p] \in {"start_queue", "pause_queue", "resume_queue", "stop_queue"}

\* that insert reaches the store and fails
QueueInsertFails(p) ==
    /\ AtQueueInsert(p)
    /\ Executes(p)
    /\ nfail' # nfail

\* the handler runs on after its queue insert has failed
QueueInsertFailed(p) ==
    /\ AtQueueInsert(p)
    /\ ~loc[p].pending /\ ~loc[p].ret.ok
    /\ pc'[p] # pc[p]

\* C17: when the queue insert of a command's event fails, the command still
\* answers 200 with the status of its transition, which it has written
\* before; queueLedgerEvent answers queued = false with no queue id and the
\* response carries queueId: null, no queue row
\* appears, the notification is still sent and neither sessions nor tokens
\* are touched by the failing insert or by the handler's return.
C17_EnqueueFailureSwallowed ==
    [][\A p \in Handlers :
         /\ QueueInsertFails(p)
            => /\ ~loc'[p].ret.ok /\ loc'[p].ret.id = 0
               /\ ledger_queue' = ledger_queue
               /\ sessions' = sessions /\ tokens' = tokens
         /\ QueueInsertFailed(p)
            => /\ pc'[p] = "done"
               /\ res'[p].code = 200
               /\ res'[p].status =
                    (CASE loc[p].cmd = "pause" -> "disconnected"
                       [] loc[p].cmd = "stop" -> "stopped"
                       [] OTHER -> "active")
               /\ res'[p].queueId = 0
               /\ loc[p].wrote /\ loc'[p].enq = 0
               /\ ledger_queue' = ledger_queue
               /\ Len(broadcasts') = Len(broadcasts) + 1
               /\ sessions' = sessions /\ tokens' = tokens]_vars

\* a pause has answered 200 without a queued event, and the session is
\* stored as disconnected
C17_PausedUnqueued ==
    \E p \in Handlers :
        /\ Done(p) /\ loc[p].cmd = "pause"
        /\ res[p].code = 200 /\ res[p].queueId = 0
        /\ sessions[loc[p].sessionId].status = "disconnected"
        /\ \A i \in DOMAIN ledger_queue :
              ledger_queue[i].event_type # "SessionPaused"

\* C18: a pause, resume or stop that arrives when the session is stored as
\* stopped or expired is answered 400 with that status, and has written
\* nothing, queued nothing and notified nobody.
C18_TerminalRejected ==
    \A p \in Handlers :
        (Answered(p) /\ isTerminal(loc[p].stored))
        => /\ res[p].code = 400
           /\ res[p].status = loc[p].stored
           /\ ~loc[p].wrote /\ ~loc[p].werr
           /\ loc[p].enq = 0 /\ loc[p].emits = 0

\* a pause that arrived when the session was stored as stopped has written
\* disconnected and answered 200
C18_PausedAfterStop ==
    \E p \in Handlers :
        /\ Answered(p) /\ loc[p].cmd = "pause" /\ loc[p].stored = "stopped"
        /\ res[p].code = 200 /\ loc[p].wrote /\ loc[p].enq = 1

\* handler p has answered a resume that presented the secret of the resume
\* before it, which had succeeded (and so had replaced that secret)
ResumedAgain(p) ==
    /\ Done(p) /\ loc[p].cmd = "resume"
    /\ loc[p].prevCmd = "resume" /\ loc[p].prevCode = 200
    /\ loc[p].prevToken = loc[p].resumeToken

\* C19: after start, pause and a successful resume, a second resume with
\* the secret the first one used fails with the invalid-token error.
C19_SecondResumeInvalidToken ==
    \A p \in Handlers :
        ResumedAgain(p)
        => res[p].code = 401 /\ res[p].error = "Invalid or revoked token"

\* the second resume was answered 400: the session is already active
C19_SecondResumeAlreadyActive ==
    \E p \in Handlers :
        /\ ResumedAgain(p)
        /\ loc[p].stored = "active" /\ ~loc[p].due
        /\ res[p].code = 400
        /\ res[p].error = "already active - no need to resume"
        /\ ~loc[p].wrote

\* the command in l lacks a required field or carries one of the wrong type
Malformed(l) ==
    /\ l.cmd # "none"
    /\ \/ l.evId = NoEv
       \/ l.cmd = "start" /\ l.powerRequired = NotANumber
       \/ l.cmd # "start" /\ l.sessionId = NoId
       \/ l.cmd = "resume" /\ l.resumeToken = NoSecret

ValidationErrors ==
    {"evId is required", "sessionId is required", "resumeToken is required",
     "powerRequired must be a number"}

\* C20: a request with a missing or wrongly typed required field is
\* answered 400 with a validation error in the step in which it arrives,
\* before any store call: sessions, tokens, queue rows, the cache, the
\* notifications and the secrets handed out are unchanged and no store call
\* was made that could fail.
C20_ValidationFirst ==
    [][(ncmd' # ncmd /\ Malformed(loc'[1]))
       => /\ pc'[1] = "done"
          /\ res'[1].code = 400
          /\ res'[1].error \in ValidationErrors
          /\ UNCHANGED <<sessions, tokens, ledger_queue, sessionCache,
                         broadcasts, nextSecret, issued, rotated, nfail>>]_vars

\* a stop without a sessionId was answered 400 while a session was active
C20_StopWithoutId ==
    /\ Done(1) /\ loc[1].cmd = "stop"
    /\ loc[1].evId # NoEv /\ loc[1].sessionId = NoId
    /\ res[1].code = 400 /\ res[1].error = "sessionId is required"
    /\ \E s \in DOMAIN sessions : sessions[s].status = "active"

\* handler p has answered a resume with 401: the token check failed
TokenRejected(p) == Done(p) /\ loc[p].cmd = "resume" /\ res[p].code = 401

\* C21: every resume rejected at the token check gets one and the same
\* response, whichever of never issued, revoked or expired the presented
\* secret is.
C21_OneTokenError ==
    \A p \in Handlers :
        TokenRejected(p) => res[p] = Err(401, "Invalid or revoked token")

\* a resume was answered 401 "Token expired": the secret's row is live and
\* its expires_at has passed
C21_TokenExpiredTold ==
    \E p \in Handlers :
        /\ TokenRejected(p) /\ res[p].error = "Token expired"
        /\ \E i \in DOMAIN tokens :
              /\ tokens[i].token_hash = hashToken(loc[p].resumeToken)
              /\ tokens[i].revoked_at = Null
              /\ isExpired(tokens[i].expires_at)

\* C22: once a row has been submitted to the ledger the attempt comes to an
\* end: the drain releases its flag and no row is left in processing.
C22_AttemptEnds ==
    (drain.at = "submit")
    ~> (~isProcessing /\
        \A i \in DOMAIN ledger_queue : ledger_queue[i].status # "processing")

\* the ledger call has failed without a commit, the drain has ended, and the
\* row is still in processing after its first attempt
C22_ProcessingAfterFailure ==
    /\ ~isProcessing /\ drain = NoDrain
    /\ ledger = {} /\ nextTx = 1
    /\ Len(ledger_queue) = 1
    /\ ledger_queue[1].status = "processing"
    /\ ledger_queue[1].attempts = 1

\* a drain starts: the select of its fetch is built and issued
FetchIssued == drain.at = "idle" /\ drain'.at = "fetch"

\* the store executes that select
Fetched == DrainExecutes("fetch")

\* C23: the select of a fetch is built with the time of the drain's start;
\* every row it returns is, in the table the store reads, pending or
\* failed, due at that time (next_retry_at <= that time <= now) and below
\* MAX_ATTEMPTS; the drain's batch is what the select returned; and the
\* row a drain submits is one of its batch, is due, and is neither
\* confirmed nor dead.
C23_OnlyEligibleSubmitted ==
    /\ [][/\ FetchIssued => drain'.asOf = now
          /\ Fetched =>
               /\ drain.asOf <= now
               /\ \A k \in DOMAIN drain'.events :
                     LET row == ledger_queue[drain'.events[k].id] IN
                     /\ row.status \in {"pending", "failed"}
                     /\ row.next_retry_at <= drain.asOf
                     /\ row.attempts < MAX_ATTEMPTS
                     /\ drain'.events[k].attempts = row.attempts
          /\ (DrainRunsOn("fetch") /\ drain'.at = "mark")
               => drain'.batch = drain.events]_vars
    /\ [](drain.at = "submit"
           => /\ drain.pos \in DOMAIN drain.batch
              /\ Current.status \notin {"confirmed", "dead"}
              /\ Current.next_retry_at <= now
              /\ drain.batch[drain.pos].attempts < MAX_ATTEMPTS)

\* a row that failed before is submitted again, after its back-off
C23_ResubmittedWhenDue ==
    /\ drain.at = "submit"
    /\ Current.status = "processing"
    /\ Current.last_error = "error"
    /\ Current.attempts = MAX_ATTEMPTS
    /\ Current.next_retry_at <= now

\* row i is pending or failed, due at time t and below MAX_ATTEMPTS
CanRunAt(i, t) ==
    /\ ledger_queue[i].status \in {"pending", "failed"}
    /\ ledger_queue[i].next_retry_at <= t
    /\ ledger_queue[i].attempts < MAX_ATTEMPTS

CanRun(i) == CanRunAt(i, now)

\* the rows of the drain's batch
BatchIds == {drain.batch[k].id : k \in DOMAIN drain.batch}

\* C24: a fetch returns at most BATCH_SIZE rows, in ascending order of
\* creation, all of them eligible; an eligible row is left out only when
\* the batch is full of older rows; and the drain works on its batch one
\* row at a time in that order: the rows before the current one have had
\* their attempt, the rows after it are as they were fetched.
C24_OldestFirst ==
    /\ [][/\ Fetched =>
               LET batch == drain'.events
                   ids == {batch[k].id : k \in DOMAIN batch}
               IN /\ Len(batch) <= BATCH_SIZE
                  /\ \A k \in DOMAIN batch :
                        CanRunAt(batch[k].id, drain.asOf)
                  /\ \A k, m \in DOMAIN batch :
                        k < m => batch[k].id < batch[m].id
                  /\ \A j \in DOMAIN ledger_queue :
                        (CanRunAt(j, drain.asOf) /\ j \notin ids)
                        => /\ Len(batch) = BATCH_SIZE
                           /\ \A a \in ids : a < j
          /\ (DrainRunsOn("fetch") /\ drain.events # <<>>)
               => /\ drain'.batch = drain.events
                  /\ drain'.at = "mark" /\ drain'.pos = 1
          /\ (drain.at \in {"confirm", "fail"} /\ drain'.at = "mark")
               => /\ drain'.batch = drain.batch
                  /\ drain'.pos = drain.pos + 1]_vars
    /\ [](drain.at \in {"mark", "submit", "confirm", "fail"}
           => \A k \in DOMAIN drain.batch :
                LET row == ledger_queue[drain.batch[k].id] IN
                /\ drain.pos \in DOMAIN drain.batch
                /\ k < drain.pos
                   => /\ row.attempts = drain.batch[k].attempts + 1
                      /\ row.status \in {"confirmed", "failed", "dead"}
                /\ k > drain.pos
                   => /\ row.attempts = drain.batch[k].attempts
                      /\ row.status \in {"pending", "failed"}
                      /\ row.tx_id = 0)

\* a drain is at the last row of a full batch, and a newer eligible row
\* waits for the next drain
C24_FullBatch ==
    /\ drain.at = "submit" /\ drain.pos = BATCH_SIZE
    /\ Len(drain.batch) = BATCH_SIZE
    /\ \E j \in DOMAIN ledger_queue :
         /\ j \notin BatchIds /\ CanRun(j)
         /\ \A a \in BatchIds : a < j

\* C25: while no contract is set, no step changes a queue row that exists
\* (rows are only added), no drain gets past its contract check, and every
\* row is as it was inserted: pending, attempts 0, no error, nothing
\* written to the ledger.
C25_NoContractNoChange ==
    /\ [][~contractUp =>
            /\ \A i \in DOMAIN ledger_queue :
                  i \in DOMAIN ledger_queue' /\ ledger_queue'[i] = ledger_queue[i]
            /\ ~isProcessing' /\ drain' = NoDrain]_vars
    /\ [](~contractUp =>
            /\ ~isProcessing /\ drain = NoDrain /\ ledger = {} /\ nextTx = 0
            /\ \A i \in DOMAIN ledger_queue :
                  /\ ledger_queue[i].status = "pending"
                  /\ ledger_queue[i].attempts = 0
                  /\ ledger_queue[i].last_error = ""
                  /\ ledger_queue[i].next_retry_at <= now)

\* a due row waits while no contract is set, and a retry call has come by
C25_RowWaits ==
    /\ ~contractUp
    /\ Len(ledger_queue) = 1 /\ CanRun(1)
    /\ nretry = 1 /\ retried.count = 0

\* tx.submit has thrown and the catch branch of processEvent has issued
\* its update; in this step the store executes it
AttemptFailed == DrainExecutes("fail")

\* C26: after a failed attempt the row is dead if the attempt has brought
\* its attempts to MAX_ATTEMPTS and failed otherwise, and carries the error.
C26_DeadAtMaxAttempts ==
    [][AttemptFailed =>
         LET row == ledger_queue'[drain.batch[drain.pos].id] IN
         /\ row.status =
              (IF row.attempts = MAX_ATTEMPTS THEN "dead" ELSE "failed")
         /\ row.attempts \in 1..MAX_ATTEMPTS
         /\ row.last_error = drain.error]_vars

\* a row is dead although its attempts are below MAX_ATTEMPTS
C26_DeadBelowMax ==
    \E i \in DOMAIN ledger_queue :
        /\ ledger_queue[i].status = "dead"
        /\ ledger_queue[i].attempts < MAX_ATTEMPTS

\* tx.submit has thrown: in this step the catch branch of processEvent
\* computes the retry time and issues its update
RetryTimeComputed == DrainRunsOn("submit") /\ drain'.at = "fail"

WriteSucceeded == DrainRunsOn("submit") /\ drain.resp = "ok"

\* the notification of a confirmed / a dead queue row
Notice(eventName, i) ==
    [eventName |-> eventName, sessionId |-> ledger_queue[i].session_id,
     queueId |-> i]

\* C28: when the ledger write of a row has succeeded the row is confirmed
\* and carries the transaction id and the key the ledger returned, and the
\* confirmation is broadcast; and a confirmed row always has its entry on
\* the ledger.
C28_ConfirmedAfterWrite ==
    /\ [][/\ WriteSucceeded => drain'.at = "confirm" /\ drain'.pending
          /\ DrainExecutes("confirm") =>
               LET row == ledger_queue'[drain.batch[drain.pos].id] IN
               /\ row.status = "confirmed"
               /\ row.tx_id = drain.txId
               /\ row.event_key =
                    EventKey(row.session_id, row.event_type, drain.txId)
          /\ DrainRunsOn("confirm") =>
               LET id == drain.batch[drain.pos].id IN
               /\ ledger_queue[id].status = "confirmed"
               /\ broadcasts' =
                    Append(broadcasts, Notice("Confirmed", id))]_vars
    /\ [](\A i \in DOMAIN ledger_queue :
            ledger_queue[i].status = "confirmed"
            => /\ ledger_queue[i].tx_id # 0
               /\ \E x \in ledger : x.key = ledger_queue[i].event_key)

\* the confirmation of a row was broadcast, the drain has ended, and the
\* row is in processing without a transaction id
C28_ToldConfirmedNotStored ==
    \E i \in DOMAIN ledger_queue :
        /\ \E k \in DOMAIN broadcasts : broadcasts[k] = Notice("Confirmed", i)
        /\ ledger_queue[i].status = "processing"
        /\ ledger_queue[i].tx_id = 0
        /\ ledger # {}
        /\ drain = NoDrain

\* a failure notification is broadcast in this step
FailureTold ==
    /\ Len(broadcasts') = Len(broadcasts) + 1
    /\ broadcasts'[Len(broadcasts')].eventName = "Failed"

\* C29: a failed attempt broadcasts the failure of its row exactly when it
\* leaves the row dead, and nothing when it leaves the row failed; no other
\* step broadcasts a failure.
C29_FailureToldIffDead ==
    /\ [][DrainRunsOn("fail") =>
            LET id == drain.batch[drain.pos].id IN
            broadcasts' =
               IF ledger_queue[id].status = "dead"
               THEN Append(broadcasts, Notice("Failed", id))
               ELSE broadcasts]_vars
    /\ [][FailureTold => DrainRunsOn("fail")]_vars

\* the failure of a row was broadcast, the drain has ended, and the row is
\* not dead but in processing
C29_ToldFailedNotDead ==
    \E i \in DOMAIN ledger_queue :
        /\ \E k \in DOMAIN broadcasts : broadcasts[k] = Notice("Failed", i)
        /\ ledger_queue[i].status = "processing"
        /\ ledger_queue[i].attempts = MAX_ATTEMPTS
        /\ drain = NoDrain /\ nretry = 0

\* the status the command of handler p writes
Target(p) ==
    CASE loc[p].cmd = "pause" -> "disconnected"
      [] loc[p].cmd = "stop" -> "stopped"
      [] OTHER -> "active"

\* handler p's command has written its status to the session
StatusWritten(p) ==
    /\ loc[p].sessionId \in DOMAIN sessions
    /\ sessions[loc[p].sessionId].status = Target(p)

\* C30: within a command the status write comes first, the token rotation
\* or revocation second, the queue insert third and the notification last:
\* a step of a command that changes tokens finds the command's status
\* written, a queue insert of a transition finds status and tokens done, and
\* a notification is sent only with the queue insert behind it.
C30_StatusThenTokens ==
    [][\A p \in Handlers :
         /\ (/\ pc[p] \in {"start_token", "resume_revoke", "resume_insert",
                            "stop_revoke"}
             /\ Executes(p) /\ tokens' # tokens)
            => StatusWritten(p)
         /\ (/\ pc[p] \in {"start_queue", "pause_queue", "resume_queue",
                            "stop_queue"}
             /\ Executes(p))
            => StatusWritten(p) /\ tokens' = tokens
         /\ (/\ pc[p] \in {"start_queue", "pause_queue", "resume_queue",
                            "stop_queue"}
             /\ pc'[p] # pc[p])
            => /\ tokens' = tokens /\ ledger_queue' = ledger_queue
               /\ Len(broadcasts') = Len(broadcasts) + 1
               /\ broadcasts'[Len(broadcasts')].queueId = res'[p].queueId
         /\ broadcasts' # broadcasts
            => pc[p] = pc'[p] \/ pc[p] \in {"start_queue", "pause_queue",
                                             "resume_queue", "stop_queue",
                                             "resume_expire_queue",
                                             "stop_expire_queue"}]_vars

\* a resume has revoked the presented token and inserted the new one, and
\* the session is still stored as disconnected
C30_RotatedBeforeStatus ==
    \E p \in Handlers :
        /\ pc[p] = "resume_update"
        /\ sessions[loc[p].sessionId].status = "disconnected"
        /\ tokens[loc[p].tokenRowId].revoked_at # Null
        /\ \E i \in DOMAIN tokens :
              /\ tokens[i].token_hash = hashToken(loc[p].newToken)
              /\ tokens[i].revoked_at = Null

\* handler p's command has found the session past its expires_at and has
\* answered 410
ExpiryDetected(p) ==
    Answered(p) /\ res[p].code = 410 /\ res[p].error = "Session expired"

\* C31: a command that detects the expiry has queued exactly one
\* SessionExpired event of the session and has emitted one notification.
C31_ExpiryQueuedAndTold ==
    \A p \in Handlers :
        ExpiryDetected(p)
        => /\ loc[p].enq = 1 /\ loc[p].emits = 1
           /\ \E i \in DOMAIN ledger_queue :
                 /\ ledger_queue[i].event_type = "SessionExpired"
                 /\ ledger_queue[i].session_id = loc[p].sessionId

\* a pause has set the session to expired and answered 410 without a
\* queued event and without a notification
C31_PauseExpiredSilently ==
    \E p \in Handlers :
        /\ ExpiryDetected(p) /\ loc[p].cmd = "pause"
        /\ sessions[loc[p].sessionId].status = "expired"
        /\ loc[p].wrote /\ loc[p].enq = 0 /\ loc[p].emits = 0
        /\ \A i \in DOMAIN ledger_queue :
              ledger_queue[i].event_type # "SessionExpired"
        /\ \A k \in DOMAIN broadcasts :
              broadcasts[k].eventName # "SessionExpired"

\* this step is handler p's getSessionCached answered from a fresh cache
\* entry
CachedRead(p) ==
    /\ Free(p) /\ loc'[p].cmd \in {"pause", "resume", "stop"}
    /\ loc'[p].session.found
    /\ CacheHit(loc'[p].sessionId, loc'[p].evId)

\* C32: a read through the cache returns the status last written to the
\* session.
C32_CachedReadIsCurrent ==
    [][\A p \in Handlers :
         CachedRead(p)
         => loc'[p].session.status = sessions[loc'[p].sessionId].status]_vars

\* the store says stopped, the cache still holds a fresh entry saying
\* active, and a pause has passed its status checks on it
C32_StaleEntryRead ==
    \E p \in Handlers :
        /\ pc[p] = "pause_update" /\ loc[p].session.status = "active"
        /\ sessions[loc[p].sessionId].status = "stopped"
        /\ CacheHit(loc[p].sessionId, loc[p].evId)
        /\ sessionCache[getCacheKey(loc[p].sessionId, loc[p].evId)].status
               = "active"

\* the unrevoked token rows of a session, in tokens'
UnrevokedAfter(sessionId) ==
    {i \in DOMAIN tokens' :
        tokens'[i].session_id = sessionId /\ tokens'[i].revoked_at = Null}

\* C33: a start with valid input sets expiresAt to hours after the time it
\* is handled (6 hours when hours is omitted); its insert appends a session
\* with status active and that expiresAt, whatever sessions exist already,
\* and leaves them as they are; its token insert leaves the new session
\* with exactly one unrevoked token, expiring with the session; the command
\* then answers 200 with status active and the secret of that token.
C33_StartCreates ==
    [][/\ \A ev \in EvInputs, h \in StartHours :
            StartReqWithin(1, ev, 10, h, MaxStarts)
            => /\ pc'[1] = "start_session"
               /\ loc'[1].expiresAt =
                      now + (IF h = NoHours THEN 6 ELSE h) * 3600000
               /\ sessions' = sessions /\ tokens' = tokens
       /\ pc[1] = "start_session" /\ Executes(1)
            => /\ sessions' =
                     Append(sessions,
                            [ev_id |-> loc[1].evId, power_required |-> 10,
                             status |-> "active",
                             expires_at |-> loc[1].expiresAt])
               /\ loc'[1].ret.ok /\ loc'[1].ret.id = Len(sessions) + 1
               /\ tokens' = tokens
       /\ pc[1] = "start_session" /\ pc'[1] # pc[1]
            => /\ pc'[1] = "start_token"
               /\ loc'[1].sessionId = loc[1].ret.id
               /\ sessions' = sessions /\ tokens' = tokens
       /\ pc[1] = "start_token" /\ Executes(1)
            => /\ sessions' = sessions
               /\ \E i \in DOMAIN tokens' :
                     /\ UnrevokedAfter(loc[1].sessionId) = {i}
                     /\ tokens'[i].expires_at =
                            sessions[loc[1].sessionId].expires_at
                     /\ tokens'[i].token_hash = hashToken(loc[1].newToken)
               /\ \A i \in DOMAIN tokens : tokens'[i] = tokens[i]
       /\ pc[1] = "start_token" /\ pc'[1] # pc[1]
            => /\ pc'[1] = "start_queue"
               /\ sessions' = sessions /\ tokens' = tokens
       /\ pc[1] = "start_queue" /\ StepOf(1)
            => /\ sessions' = sessions /\ tokens' = tokens
               /\ pc'[1] # pc[1]
                  => /\ res'[1].code = 200 /\ res'[1].status = "active"
                     /\ res'[1].resumeToken = loc[1].newToken]_vars

\* a second session of the same evId was started while the first one is
\* still active; both are active, each with its own unrevoked token
C33_SecondSessionStarted ==
    /\ Len(sessions) = 2 /\ Done(1) /\ loc[1].cmd = "start"
    /\ res[1].code = 200 /\ loc[1].sessionId = 2
    /\ sessions[1].ev_id = sessions[2].ev_id
    /\ sessions[1].status = "active" /\ sessions[2].status = "active"
    /\ sessions[2].expires_at = now + HOUR_MS
    /\ Cardinality(Unrevoked(1)) = 1 /\ Cardinality(Unrevoked(2)) = 1
    /\ Unrevoked(1) # Unrevoked(2)

\* the status changes a queue row may make
StatusEdges ==
    {<<"pending", "processing">>, <<"failed", "processing">>,
     <<"processing", "confirmed">>, <<"processing", "failed">>,
     <<"processing", "dead">>, <<"dead", "pending">>}

\* C34: no queue row is deleted, and a row's status changes only along
\* StatusEdges, the edge from dead to pending only in the update of a
\* retryDeadEvents call.
C34_OnlyStatusEdges ==
    [][/\ Len(ledger_queue') >= Len(ledger_queue)
       /\ \A i \in DOMAIN ledger_queue :
            ledger_queue'[i].status # ledger_queue[i].status
            => /\ <<ledger_queue[i].status, ledger_queue'[i].status>>
                      \in StatusEdges
               /\ ledger_queue[i].status = "dead" => RetryExecutes]_vars

\* a row is confirmed although it was never marked processing: its attempt
\* count is still 0
C34_ConfirmedFromPending ==
    \E i \in DOMAIN ledger_queue :
        /\ ledger_queue[i].status = "confirmed"
        /\ ledger_queue[i].attempts = 0
        /\ ledger_queue[i].tx_id # 0

\* no handler is between two awaits of a command
NoCommandInFlight == \A p \in Handlers : pc[p] \in {"idle", "done"}

\* C35: with no command in flight, a session that is not terminal has
\* exactly one unrevoked token and a stopped or expired session has none.
C35_LiveTokenMatchesStatus ==
    NoCommandInFlight
    => \A s \in DOMAIN sessions :
          IF isTerminal(sessions[s].status)
          THEN Unrevoked(s) = {}
          ELSE Cardinality(Unrevoked(s)) = 1

\* a command has answered 410, the session is expired and its token is
\* still unrevoked
C35_ExpiredWithLiveToken ==
    /\ NoCommandInFlight
    /\ \E p \in Handlers : ExpiryDetected(p)
    /\ \E s \in DOMAIN sessions :
          sessions[s].status = "expired" /\ Unrevoked(s) # {}

\* the same, for sessions that are not expired
C35_ExceptExpired ==
    NoCommandInFlight
    => \A s \in DOMAIN sessions :
          IF sessions[s].status = "stopped"
          THEN Unrevoked(s) = {}
          ELSE sessions[s].status # "expired"
               => Cardinality(Unrevoked(s)) = 1

\* C36: no step of a pause changes the token table, and a resume that
\* follows a successful pause and presents the secret of an unrevoked token
\* of the session finds that token and, the token not being expired, passes
\* the token check.
C36_PauseKeepsTokens ==
    [][\A p \in Handlers :
        /\ StepOf(p) /\ loc'[p].cmd = "pause" => tokens' = tokens
        /\ ( /\ pc[p] = "resume_token" /\ Executes(p)
             /\ loc[p].prevCmd = "pause" /\ loc[p].prevCode = 200
             /\ \E i \in Unrevoked(loc[p].sessionId) :
                   tokens[i].token_hash = hashToken(loc[p].resumeToken) )
           => /\ loc'[p].ret.ok
              /\ loc'[p].ret.id \in Unrevoked(loc[p].sessionId)
              /\ tokens[loc'[p].ret.id].token_hash =
                     hashToken(loc[p].resumeToken)
        /\ ( /\ pc[p] = "resume_token" /\ pc'[p] # pc[p]
             /\ loc[p].prevCmd = "pause" /\ loc[p].prevCode = 200
             /\ loc[p].ret.ok /\ ~isExpired(loc[p].ret.row.expires_at) )
           => pc'[p] = "resume_revoke"]_vars

\* a resume that followed a successful pause was accepted with the secret
\* issued before the pause
C36_ResumedAfterPause ==
    \E p \in Handlers :
        /\ Done(p) /\ loc[p].cmd = "resume" /\ res[p].code = 200
        /\ loc[p].prevCmd = "pause" /\ loc[p].prevCode = 200
        /\ loc[p].resumeToken \in rotated
        /\ sessions[loc[p].sessionId].status = "active"

\* handler p works on a pause, resume or stop that names an existing
\* session with an evId that is not the session's
WrongEv(l) ==
    /\ l.cmd \in {"pause", "resume", "stop"}
    /\ l.sessionId \in DOMAIN sessions
    /\ l.evId # NoEv /\ l.evId # sessions[l.sessionId].ev_id

\* C37: no step of a command with a wrong evId changes a session, a token,
\* a queue row, the cache or the notifications, and the command answers 404
\* "Session not found".
C37_WrongEvNotFound ==
    [][\A p \in Handlers :
        StepOf(p) /\ WrongEv(loc'[p])
        => /\ sessions' = sessions /\ tokens' = tokens
           /\ ledger_queue' = ledger_queue /\ broadcasts' = broadcasts
           /\ sessionCache' = sessionCache
           /\ pc'[p] = "done" => res'[p] = Err(404, "Session not found")]_vars

\* a command with a wrong evId was answered 404 while the session was
\* cached under its own evId
C37_NotFoundWhileCached ==
    \E p \in Handlers :
        /\ Done(p) /\ WrongEv(loc[p])
        /\ res[p].code = 404
        /\ CacheHit(loc[p].sessionId, sessions[loc[p].sessionId].ev_id)
        /\ ~CacheHit(loc[p].sessionId, loc[p].evId)

\* the drain in progress is between the mark update of row i and the update
\* that ends the attempt
WorkingOn(i) ==
    /\ isProcessing
    /\ \/ drain.at = "mark" /\ ~drain.pending
       \/ drain.at = "submit"
       \/ drain.at \in {"confirm", "fail"} /\ drain.pending
    /\ drain.batch[drain.pos].id = i

\* C38: a row is in processing only while a drain is working on it.
C38_ProcessingOnlyInDrain ==
    \A i \in DOMAIN ledger_queue :
        ledger_queue[i].status = "processing" => WorkingOn(i)

\* the event is on the ledger, the confirm update has failed and the drain
\* has ended: the row is in processing with no drain in progress
C38_CommittedButProcessing ==
    \E i \in DOMAIN ledger_queue :
        /\ ledger_queue[i].status = "processing"
        /\ ledger_queue[i].tx_id = 0
        /\ EntriesOf(i) # {}
        /\ ~isProcessing /\ drain = NoDrain

\* the number of tx.submit calls made so far: every transaction is
\* submitted in the step that creates it
Submissions == nextTx

\* C39: a row's attempts never exceed MAX_ATTEMPTS, and as long as the row
\* of a one-row queue was never reset, no more than MAX_ATTEMPTS
\* submissions were made for it.
C39_AtMostMaxSubmissions ==
    /\ \A i \in DOMAIN ledger_queue : ledger_queue[i].attempts <= MAX_ATTEMPTS
    /\ Len(ledger_queue) = 1 /\ nretry = 0 => Submissions <= MAX_ATTEMPTS

\* the row is dead after MAX_ATTEMPTS counted attempts, none of which
\* reached the ledger, and was submitted once more than that
C39_SixthSubmission ==
    /\ Len(ledger_queue) = 1 /\ nretry = 0
    /\ ledger_queue[1].status = "dead"
    /\ ledger_queue[1].attempts = MAX_ATTEMPTS
    /\ ledger = {} /\ drain = NoDrain
    /\ Submissions = MAX_ATTEMPTS + 1

\* C40: a drain whose awaits all return releases the flag, on whichever
\* path it ends, and the flag is never left set by a drain that has ended:
\* the next tick finds the guard of processQueue open.  While there is no
\* contract every drain returns at its contract check, in the step that
\* took the flag.
C40_FlagReleased ==
    /\ [](drain.at = "idle" => ~Busy)
    /\ [](~contractUp => ~Busy /\ drain = NoDrain)
    /\ isProcessing ~> ~isProcessing

\* a drain has processed a row whose submit threw and has ended: the row
\* waits for its retry and the flag is free for the next tick
C40_FreeAfterFailedRow ==
    /\ ~isProcessing /\ drain = NoDrain /\ contractUp
    /\ \E i \in DOMAIN ledger_queue :
          /\ ledger_queue[i].status = "failed"
          /\ ledger_queue[i].last_error # ""
          /\ ledger_queue[i].attempts = 1
          /\ ledger_queue[i].next_retry_at > now

=============================================================================
